---------------------------- MODULE Spec2Model ----------------------------
(***************************************************************************)
(* A model of the expressparser package: the field parser (fields.go), the *)
(* expression parser and matcher (cron.go), and the timezone-aware search  *)
(* engine (scheduler.go).  Cron expressions and field tokens are strings;  *)
(* the parser is modelled character by character.                          *)
(***************************************************************************)
EXTENDS Integers, Sequences, FiniteSets, TLC

VARIABLES
    pc,         \* position of the modelled call: "start", "find", "done", ...
    fieldType,  \* FieldParser.fieldType
    ast,        \* the structure the token under test was rendered from
    token,      \* the string handed to FieldParser.Parse
    fieldRes,   \* the (*Field, error) pair FieldParser.Parse returned
    raw,        \* the string handed to Parse / ParseWithSeconds
    seconds,    \* whether the WithSeconds option was given
    parseRes,   \* the (*Expression, error) pair parseCron returned, and the
                \* FieldParser.Parse calls it made
    matchArgs,  \* the arguments of the Expression.Matches call
    matchRes,   \* what Expression.Matches returned
    location,   \* Scheduler.location
    call,       \* the NextN / PreviousN call in progress: its arguments and locals
    result,     \* the (time.Time, error) pair the call returned
    batch,      \* the NextNTimes / PreviousNTimes call in progress, and what it returned
    threads,    \* the calls of the goroutines that share one Scheduler: for each,
                \* its position, its arguments and locals, and what it returned
    dayProbe    \* the instant handed to Scheduler.matchesDay and what it returned

fieldVars == <<fieldType, token, fieldRes>>

parseVars == <<raw, seconds, parseRes>>

matchVars == <<matchArgs, matchRes>>

schedVars == <<location, call, result>>

vars == <<pc, ast, fieldVars, parseVars, matchVars, schedVars, batch, threads, dayProbe>>

(***************************************************************************)
(* The string functions of the Go library the parser uses.                 *)
(***************************************************************************)
CharAt(s, i) == SubSeq(s, i, i)

Whitespace == {" ", "\t", "\n", "\r"}

HasPrefix(s, p) == Len(s) >= Len(p) /\ SubSeq(s, 1, Len(p)) = p

HasSuffix(s, p) == Len(s) >= Len(p) /\ SubSeq(s, Len(s) - Len(p) + 1, Len(s)) = p

\* strings.Index for a one-character separator: 0 when absent
IndexOf(s, c) ==
    IF \E i \in 1..Len(s) : CharAt(s, i) = c
    THEN CHOOSE i \in 1..Len(s) :
            CharAt(s, i) = c /\ \A j \in 1..(i - 1) : CharAt(s, j) # c
    ELSE 0

StrContains(s, c) == IndexOf(s, c) # 0

\* strings.SplitN(s, sep, 2)
SplitN2(s, c) ==
    LET i == IndexOf(s, c)
    IN  IF i = 0 THEN <<s>>
        ELSE <<SubSeq(s, 1, i - 1), SubSeq(s, i + 1, Len(s))>>

RECURSIVE Split(_, _)
\* strings.Split(s, sep)
Split(s, c) ==
    LET i == IndexOf(s, c)
    IN  IF i = 0 THEN <<s>>
        ELSE <<SubSeq(s, 1, i - 1)>> \o Split(SubSeq(s, i + 1, Len(s)), c)

RECURSIVE TrimLeft(_)
TrimLeft(s) ==
    IF Len(s) > 0 /\ CharAt(s, 1) \in Whitespace
    THEN TrimLeft(SubSeq(s, 2, Len(s))) ELSE s

RECURSIVE TrimRight(_)
TrimRight(s) ==
    IF Len(s) > 0 /\ CharAt(s, Len(s)) \in Whitespace
    THEN TrimRight(SubSeq(s, 1, Len(s) - 1)) ELSE s

\* strings.TrimSpace
TrimSpace(s) == TrimRight(TrimLeft(s))

RECURSIVE Fields(_)
\* strings.Fields: the maximal runs of non-whitespace characters
Fields(s) ==
    LET u == TrimLeft(s)
        e == IF \E i \in 1..Len(u) : CharAt(u, i) \in Whitespace
             THEN CHOOSE i \in 1..Len(u) :
                     /\ CharAt(u, i) \in Whitespace
                     /\ \A j \in 1..(i - 1) : CharAt(u, j) \notin Whitespace
             ELSE Len(u) + 1
    IN  IF Len(u) = 0 THEN <<>>
        ELSE <<SubSeq(u, 1, e - 1)>> \o Fields(SubSeq(u, e, Len(u)))

LowerLetters == "abcdefghijklmnopqrstuvwxyz"

UpperLetters == "ABCDEFGHIJKLMNOPQRSTUVWXYZ"

UpperChar(c) ==
    IF StrContains(LowerLetters, c) THEN CharAt(UpperLetters, IndexOf(LowerLetters, c)) ELSE c

LowerChar(c) ==
    IF StrContains(UpperLetters, c) THEN CharAt(LowerLetters, IndexOf(UpperLetters, c)) ELSE c

RECURSIVE ToUpper(_)
ToUpper(s) ==
    IF Len(s) = 0 THEN s ELSE UpperChar(CharAt(s, 1)) \o ToUpper(SubSeq(s, 2, Len(s)))

RECURSIVE ToLower(_)
ToLower(s) ==
    IF Len(s) = 0 THEN s ELSE LowerChar(CharAt(s, 1)) \o ToLower(SubSeq(s, 2, Len(s)))

DigitChars == "0123456789"

IsDigit(c) == StrContains(DigitChars, c)

DigitVal(c) == IndexOf(DigitChars, c) - 1

RECURSIVE DigitsVal(_, _)
DigitsVal(s, acc) ==
    IF Len(s) = 0 THEN acc
    ELSE DigitsVal(SubSeq(s, 2, Len(s)), 10 * acc + DigitVal(CharAt(s, 1)))

\* strconv.Atoi: an optional sign and at least one decimal digit, nothing else
Atoi(s) ==
    LET signed == Len(s) > 0 /\ CharAt(s, 1) \in {"+", "-"}
        digits == IF signed THEN SubSeq(s, 2, Len(s)) ELSE s
        good   == Len(digits) > 0 /\ \A i \in 1..Len(digits) : IsDigit(CharAt(digits, i))
    IN  IF ~good THEN [ok |-> FALSE, val |-> 0]
        ELSE [ok |-> TRUE,
              val |-> IF signed /\ CharAt(s, 1) = "-"
                      THEN 0 - DigitsVal(digits, 0) ELSE DigitsVal(digits, 0)]


(***************************************************************************)
(* errors.go: field types, bounds and the error values.  A nil pointer or  *)
(* nil error is the empty tuple, a non-nil one a one-element tuple.        *)
(***************************************************************************)
Nil == <<>>

FieldSecond == "second"

FieldMinute == "minute"

FieldHour == "hour"

FieldDayOfMonth == "day-of-month"

FieldMonth == "month"

FieldDayOfWeek == "day-of-week"

FieldTypes == {FieldSecond, FieldMinute, FieldHour, FieldDayOfMonth, FieldMonth, FieldDayOfWeek}

fieldBounds ==
    [ft \in FieldTypes |->
        CASE ft = FieldSecond     -> [min |-> 0, max |-> 59]
          [] ft = FieldMinute     -> [min |-> 0, max |-> 59]
          [] ft = FieldHour       -> [min |-> 0, max |-> 23]
          [] ft = FieldDayOfMonth -> [min |-> 1, max |-> 31]
          [] ft = FieldMonth      -> [min |-> 1, max |-> 12]
          [] ft = FieldDayOfWeek  -> [min |-> 0, max |-> 6]]

ErrEmptyExpression == [kind |-> "ErrEmptyExpression"]

ErrInvalidFieldCount == [kind |-> "ErrInvalidFieldCount"]

ErrNoNextRun == [kind |-> "ErrNoNextRun"]

ErrNoPreviousRun == [kind |-> "ErrNoPreviousRun"]

NewParseError(expression, field, value, reason) ==
    [kind |-> "ParseError", expression |-> expression, field |-> field,
     value |-> value, reason |-> reason]

NewFieldError(ft, value, reason) ==
    [kind |-> "FieldError", field |-> ft, value |-> value,
     min |-> fieldBounds[ft].min, max |-> fieldBounds[ft].max, reason |-> reason]

RangeError(ft, start, end) ==
    [kind |-> "RangeError", field |-> ft, start |-> start, end |-> end]

StepError(ft, step) == [kind |-> "StepError", field |-> ft, step |-> step]

(***************************************************************************)
(* fields.go.  Field.Values is a map[int]bool that only ever holds true    *)
(* entries, so it is the set of its keys and len(Values) its cardinality.  *)
(***************************************************************************)
monthNames ==
    [n \in {"JAN", "JANUARY", "FEB", "FEBRUARY", "MAR", "MARCH", "APR", "APRIL", "MAY",
            "JUN", "JUNE", "JUL", "JULY", "AUG", "AUGUST", "SEP", "SEPTEMBER",
            "OCT", "OCTOBER", "NOV", "NOVEMBER", "DEC", "DECEMBER"} |->
        CASE n \in {"JAN", "JANUARY"}   -> 1
          [] n \in {"FEB", "FEBRUARY"}  -> 2
          [] n \in {"MAR", "MARCH"}     -> 3
          [] n \in {"APR", "APRIL"}     -> 4
          [] n = "MAY"                  -> 5
          [] n \in {"JUN", "JUNE"}      -> 6
          [] n \in {"JUL", "JULY"}      -> 7
          [] n \in {"AUG", "AUGUST"}    -> 8
          [] n \in {"SEP", "SEPTEMBER"} -> 9
          [] n \in {"OCT", "OCTOBER"}   -> 10
          [] n \in {"NOV", "NOVEMBER"}  -> 11
          [] n \in {"DEC", "DECEMBER"}  -> 12]

dayNames ==
    [n \in {"SUN", "SUNDAY", "MON", "MONDAY", "TUE", "TUESDAY", "WED", "WEDNESDAY",
            "THU", "THURSDAY", "FRI", "FRIDAY", "SAT", "SATURDAY"} |->
        CASE n \in {"SUN", "SUNDAY"}    -> 0
          [] n \in {"MON", "MONDAY"}    -> 1
          [] n \in {"TUE", "TUESDAY"}   -> 2
          [] n \in {"WED", "WEDNESDAY"} -> 3
          [] n \in {"THU", "THURSDAY"}  -> 4
          [] n \in {"FRI", "FRIDAY"}    -> 5
          [] n \in {"SAT", "SATURDAY"}  -> 6]

NewField(ft, values, rawTok) == [Type |-> ft, Values |-> values, Raw |-> rawTok]

\* Field.Contains
Contains(f, value) == value \in f.Values

\* Field.IsAll
IsAll(f) == Cardinality(f.Values) = fieldBounds[f.Type].max - fieldBounds[f.Type].min + 1

\* Field.All
All(f) == {i \in fieldBounds[f.Type].min .. fieldBounds[f.Type].max : i \in f.Values}

\* FieldParser.parseValue: (value, error)
parseValue(ft, str) ==
    LET lookup(s) ==
            IF ft = FieldMonth /\ s \in DOMAIN monthNames
            THEN [val |-> monthNames[s], err |-> Nil]
            ELSE IF ft = FieldDayOfWeek /\ s \in DOMAIN dayNames
            THEN [val |-> dayNames[s], err |-> Nil]
            ELSE LET number(a) ==
                         IF ~a.ok
                         THEN [val |-> 0, err |-> <<NewFieldError(ft, s, "invalid value")>>]
                         ELSE [val |-> a.val, err |-> Nil]
                 IN  number(Atoi(s))
    IN  lookup(ToUpper(TrimSpace(str)))

\* validateValue with the upper bound off by one
validateValueLax(ft, value, original) ==
    IF value < fieldBounds[ft].min \/ value > fieldBounds[ft].max + 1
    THEN <<NewFieldError(ft, original, "value out of range")>>
    ELSE Nil

\* validateValue without the test of the lower bound
validateValueNoMin(ft, value, original) ==
    IF value > fieldBounds[ft].max
    THEN <<NewFieldError(ft, original, "value out of range")>>
    ELSE Nil

\* FieldParser.validateValue: error
validateValue(ft, value, original) ==
    IF value < fieldBounds[ft].min \/ value > fieldBounds[ft].max
    THEN <<NewFieldError(ft, original, "value out of range")>>
    ELSE Nil

RECURSIVE addRangeExclusive(_, _, _, _)
\* addRange with the loop condition i < end
addRangeExclusive(values, i, end, step) ==
    IF i < end THEN addRangeExclusive(values \cup {i}, i + step, end, step) ELSE values

RECURSIVE addRange(_, _, _, _)
\* FieldParser.addRange: for i := start; i <= end; i += step
addRange(values, i, end, step) ==
    IF i <= end THEN addRange(values \cup {i}, i + step, end, step) ELSE values

\* FieldParser.isNamedValue
isNamedValue(ft, part) ==
    LET upper == ToUpper(TrimSpace(part))
    IN  IF ft = FieldMonth THEN upper \in DOMAIN monthNames
        ELSE IF ft = FieldDayOfWeek THEN upper \in DOMAIN dayNames
        ELSE FALSE

\* FieldParser.hasSpecialChars
hasSpecialChars(ft, part) ==
    LET upper == ToUpper(part)
    IN  CASE ft = FieldDayOfMonth ->
               upper = "L" \/ upper = "LW" \/ HasSuffix(upper, "W") \/ HasPrefix(upper, "L")
          [] ft = FieldDayOfWeek -> HasSuffix(upper, "L") \/ StrContains(upper, "#")
          [] OTHER -> FALSE

\* FieldParser.parseSingle: the values after the call, and the error
parseSingle(ft, values, part) ==
    LET add(v) ==
            IF v.err # Nil THEN [vals |-> values, err |-> v.err]
            ELSE IF validateValue(ft, v.val, part) # Nil
            THEN [vals |-> values, err |-> validateValue(ft, v.val, part)]
            ELSE [vals |-> values \cup {v.val}, err |-> Nil]
    IN  add(parseValue(ft, part))

\* the range part shared by parseRange (step 1) and parseStep's range base
parseBounds(ft, values, rangeParts, step) ==
    LET add(start, end) ==
            IF start.err # Nil THEN [vals |-> values, err |-> start.err]
            ELSE IF end.err # Nil THEN [vals |-> values, err |-> end.err]
            ELSE IF validateValue(ft, start.val, rangeParts[1]) # Nil
            THEN [vals |-> values, err |-> validateValue(ft, start.val, rangeParts[1])]
            ELSE IF validateValue(ft, end.val, rangeParts[2]) # Nil
            THEN [vals |-> values, err |-> validateValue(ft, end.val, rangeParts[2])]
            ELSE IF start.val > end.val
            THEN [vals |-> values, err |-> <<RangeError(ft, start.val, end.val)>>]
            ELSE [vals |-> addRange(values, start.val, end.val, step), err |-> Nil]
    IN  add(parseValue(ft, rangeParts[1]), parseValue(ft, rangeParts[2]))

\* FieldParser.parseRange
parseRange(ft, values, part) ==
    LET range(rangeParts) ==
            IF Len(rangeParts) # 2
            THEN [vals |-> values, err |-> <<NewFieldError(ft, part, "invalid range format")>>]
            ELSE parseBounds(ft, values, rangeParts, 1)
    IN  range(SplitN2(part, "-"))

\* FieldParser.parseStep
parseStep(ft, values, part) ==
    LET from(baseExpr, start, step) ==
            IF start.err # Nil THEN [vals |-> values, err |-> start.err]
            ELSE IF validateValue(ft, start.val, baseExpr) # Nil
            THEN [vals |-> values, err |-> validateValue(ft, start.val, baseExpr)]
            ELSE [vals |-> addRange(values, start.val, fieldBounds[ft].max, step), err |-> Nil]
        base(baseExpr, step) ==
            IF ~step.ok
            THEN [vals |-> values,
                  err |-> <<NewFieldError(ft, SplitN2(part, "/")[2], "step must be a number")>>]
            ELSE IF step.val <= 0 THEN [vals |-> values, err |-> <<StepError(ft, step.val)>>]
            ELSE IF baseExpr = "*"
            THEN [vals |-> addRange(values, fieldBounds[ft].min, fieldBounds[ft].max, step.val),
                  err |-> Nil]
            ELSE IF StrContains(baseExpr, "-")
            THEN parseBounds(ft, values, SplitN2(baseExpr, "-"), step.val)
            ELSE from(baseExpr, parseValue(ft, baseExpr), step.val)
        split(stepParts) ==
            IF Len(stepParts) # 2
            THEN [vals |-> values, err |-> <<NewFieldError(ft, part, "invalid step format")>>]
            ELSE base(stepParts[1], Atoi(stepParts[2]))
    IN  split(SplitN2(part, "/"))

\* FieldParser.parseDayOfMonthSpecial (part is already upper case)
parseDayOfMonthSpecial(ft, values, part) ==
    LET lastMinus(offset) ==
            IF ~offset.ok \/ offset.val < 0 \/ offset.val > 30
            THEN [vals |-> values, err |-> <<NewFieldError(ft, part, "invalid L-N format")>>]
            ELSE [vals |-> values \cup {32 + offset.val}, err |-> Nil]
        nearest(day) ==
            IF ~day.ok
            THEN [vals |-> values, err |-> <<NewFieldError(ft, part, "invalid NW format")>>]
            ELSE IF day.val < 1 \/ day.val > 31
            THEN [vals |-> values,
                  err |-> <<NewFieldError(ft, part, "day must be between 1 and 31")>>]
            ELSE [vals |-> values \cup {100 + day.val}, err |-> Nil]
    IN  IF part = "L" THEN [vals |-> values \cup {32}, err |-> Nil]
        ELSE IF part = "LW" THEN [vals |-> values \cup {33}, err |-> Nil]
        ELSE IF HasPrefix(part, "L-") THEN lastMinus(Atoi(SubSeq(part, 3, Len(part))))
        ELSE IF HasSuffix(part, "W") THEN nearest(Atoi(SubSeq(part, 1, Len(part) - 1)))
        ELSE [vals |-> values,
              err |-> <<NewFieldError(ft, part, "unrecognized special character combination")>>]

\* FieldParser.parseDayOfWeekSpecial (part is already upper case)
parseDayOfWeekSpecial(ft, values, part) ==
    LET last(day) ==
            IF day.err # Nil THEN [vals |-> values, err |-> day.err]
            ELSE IF day.val < 0 \/ day.val > 6
            THEN [vals |-> values,
                  err |-> <<NewFieldError(ft, part, "day must be between 0 and 6")>>]
            ELSE [vals |-> values \cup {10 + day.val}, err |-> Nil]
        nth(day, occurrence) ==
            IF day.err # Nil THEN [vals |-> values, err |-> day.err]
            ELSE IF day.val < 0 \/ day.val > 6
            THEN [vals |-> values,
                  err |-> <<NewFieldError(ft, part, "day must be between 0 and 6")>>]
            ELSE IF ~occurrence.ok \/ occurrence.val < 1 \/ occurrence.val > 5
            THEN [vals |-> values,
                  err |-> <<NewFieldError(ft, part, "occurrence must be between 1 and 5")>>]
            ELSE [vals |-> values \cup {20 + day.val * 10 + occurrence.val}, err |-> Nil]
        split(parts) ==
            IF Len(parts) # 2
            THEN [vals |-> values, err |-> <<NewFieldError(ft, part, "invalid N#M format")>>]
            ELSE nth(parseValue(ft, parts[1]), Atoi(parts[2]))
    IN  IF HasSuffix(part, "L") THEN last(parseValue(ft, SubSeq(part, 1, Len(part) - 1)))
        ELSE IF StrContains(part, "#") THEN split(SplitN2(part, "#"))
        ELSE [vals |-> values,
              err |-> <<NewFieldError(ft, part, "unrecognized special character combination")>>]

\* parseSpecial handing a day-of-week token to the day-of-month parser
parseSpecialDayOfMonthOnly(ft, values, part) ==
    CASE ft = FieldDayOfMonth -> parseDayOfMonthSpecial(ft, values, ToUpper(part))
      [] ft = FieldDayOfWeek  -> parseDayOfMonthSpecial(ft, values, ToUpper(part))
      [] OTHER -> [vals |-> values,
                   err |-> <<NewFieldError(ft, part,
                              "special characters L, W, # not allowed in this field")>>]

\* FieldParser.parseSpecial
parseSpecial(ft, values, part) ==
    CASE ft = FieldDayOfMonth -> parseDayOfMonthSpecial(ft, values, ToUpper(part))
      [] ft = FieldDayOfWeek  -> parseDayOfWeekSpecial(ft, values, ToUpper(part))
      [] OTHER -> [vals |-> values,
                   err |-> <<NewFieldError(ft, part,
                              "special characters L, W, # not allowed in this field")>>]

\* FieldParser.parsePart
parsePart(ft, values, part) ==
    IF StrContains(part, "/") THEN parseStep(ft, values, part)
    ELSE IF StrContains(part, "-")
    THEN IF HasPrefix(ToUpper(part), "L-") /\ ft = FieldDayOfMonth
         THEN parseSpecial(ft, values, part)
         ELSE parseRange(ft, values, part)
    ELSE IF isNamedValue(ft, part) THEN parseSingle(ft, values, part)
    ELSE IF hasSpecialChars(ft, part) THEN parseSpecial(ft, values, part)
    ELSE parseSingle(ft, values, part)

RECURSIVE parseParts(_, _, _, _)
\* the loop of FieldParser.Parse over the comma-separated parts
parseParts(ft, values, parts, i) ==
    LET rest(r) == IF r.err # Nil THEN r ELSE parseParts(ft, r.vals, parts, i + 1)
        one(part) ==
            IF part = "" THEN parseParts(ft, values, parts, i + 1)
            ELSE rest(parsePart(ft, values, part))
    IN  IF i > Len(parts) THEN [vals |-> values, err |-> Nil]
        ELSE one(TrimSpace(parts[i]))

\* FieldParser.Parse: (*Field, error)
FieldParserParse(ft, expr) ==
    LET finish(r) ==
            IF r.err # Nil THEN [field |-> Nil, err |-> r.err]
            ELSE IF r.vals = {}
            THEN [field |-> Nil, err |-> <<NewFieldError(ft, expr, "no valid values found")>>]
            ELSE [field |-> <<NewField(ft, r.vals, expr)>>, err |-> Nil]
    IN  IF expr = ""
        THEN [field |-> Nil, err |-> <<NewFieldError(ft, expr, "field cannot be empty")>>]
        ELSE IF expr = "*" \/ expr = "?"
        THEN [field |-> <<NewField(ft, addRange({}, fieldBounds[ft].min, fieldBounds[ft].max, 1),
                                   expr)>>,
              err |-> Nil]
        ELSE finish(parseParts(ft, {}, Split(expr, ","), 1))

(***************************************************************************)
(* cron.go: the Expression, parseCron, detectSpecialFlags and Matches.     *)
(***************************************************************************)
StandardCron == 5

ExtendedCron == 6

\* the table with @weekly on Monday
predefinedWeeklyMonday ==
    [k \in {"@yearly", "@annually", "@monthly", "@weekly", "@daily", "@midnight", "@hourly"} |->
        CASE k = "@yearly"   -> "0 0 1 1 *"
          [] k = "@annually" -> "0 0 1 1 *"
          [] k = "@monthly"  -> "0 0 1 * *"
          [] k = "@weekly"   -> "0 0 * * 1"
          [] k = "@daily"    -> "0 0 * * *"
          [] k = "@midnight" -> "0 0 * * *"
          [] k = "@hourly"   -> "0 * * * *"]

predefinedExpressions ==
    [k \in {"@yearly", "@annually", "@monthly", "@weekly", "@daily", "@midnight", "@hourly"} |->
        CASE k = "@yearly"   -> "0 0 1 1 *"
          [] k = "@annually" -> "0 0 1 1 *"
          [] k = "@monthly"  -> "0 0 1 * *"
          [] k = "@weekly"   -> "0 0 * * 0"
          [] k = "@daily"    -> "0 0 * * *"
          [] k = "@midnight" -> "0 0 * * *"
          [] k = "@hourly"   -> "0 * * * *"]

\* the order in which parseCron hands the tokens to the field parsers
FieldOrder == <<FieldSecond, FieldMinute, FieldHour, FieldDayOfMonth, FieldMonth, FieldDayOfWeek>>

\* the six FieldParser.Parse calls all made, the error of the last failing one returned
parseFieldsLastError(toks, i, fields, calls) ==
    LET bad == {j \in 1..Len(FieldOrder) : FieldParserParse(FieldOrder[j], toks[j]).err # Nil}
        last == CHOOSE j \in bad : \A k \in bad : k <= j
    IN  IF bad = {}
        THEN [fields |-> [j \in 1..Len(FieldOrder) |->
                             FieldParserParse(FieldOrder[j], toks[j]).field[1]],
              err |-> Nil,
              calls |-> [j \in 1..Len(FieldOrder) |-> <<FieldOrder[j], toks[j]>>]]
        ELSE [fields |-> fields, err |-> FieldParserParse(FieldOrder[last], toks[last]).err,
              calls |-> [j \in 1..Len(FieldOrder) |-> <<FieldOrder[j], toks[j]>>]]

RECURSIVE parseFields(_, _, _, _)
\* the six FieldParser.Parse calls of parseCron, each returning at its error
parseFields(toks, i, fields, calls) ==
    LET next(r, c) ==
            IF r.err # Nil THEN [fields |-> fields, err |-> r.err, calls |-> c]
            ELSE parseFields(toks, i + 1, Append(fields, r.field[1]), c)
    IN  IF i > Len(FieldOrder) THEN [fields |-> fields, err |-> Nil, calls |-> calls]
        ELSE next(FieldParserParse(FieldOrder[i], toks[i]),
                  Append(calls, <<FieldOrder[i], toks[i]>>))

\* Expression.detectSpecialFlags
detectSpecialFlags(e) ==
    [e EXCEPT
        !.HasLastDayOfMonth = e.HasLastDayOfMonth \/ \E v \in e.DayOfMonth.Values : v = 32,
        !.HasLastWeekday    = e.HasLastWeekday \/ \E v \in e.DayOfMonth.Values : v = 33,
        !.HasNearestWeekday = e.HasNearestWeekday
                                 \/ \E v \in e.DayOfMonth.Values : v >= 101 /\ v <= 131,
        !.HasLastDayOfWeek  = e.HasLastDayOfWeek
                                 \/ \E v \in e.DayOfWeek.Values : v >= 10 /\ v <= 16,
        !.HasNthDayOfWeek   = e.HasNthDayOfWeek
                                 \/ \E v \in e.DayOfWeek.Values : v >= 21 /\ v <= 75]

\* the six field strings with an implicit second of "*"
fieldExprsAnySecond(fields) == IF Len(fields) = 6 THEN fields ELSE <<"*">> \o fields

\* secondExpr, minuteExpr, hourExpr, domExpr, monthExpr, dowExpr of parseCron
fieldExprs(fields) == IF Len(fields) = 6 THEN fields ELSE <<"0">> \o fields

\* the field-count test without its upper limit
fieldCountInvalidNoMax(fieldCount) == fieldCount < 5

\* the field-count test of parseCron
fieldCountInvalid(fieldCount) == fieldCount < 5 \/ fieldCount > 6

\* parseCron with the option read: WithSeconds takes six fields, its absence five
parseCronBySeconds(str, withSeconds) ==
    LET build(expr, fieldCount, r) ==
            IF r.err # Nil THEN [expr |-> Nil, err |-> r.err, calls |-> r.calls]
            ELSE [expr |-> <<detectSpecialFlags(
                               [Raw |-> expr,
                                Type |-> IF fieldCount = 6 THEN ExtendedCron ELSE StandardCron,
                                Second |-> r.fields[1], Minute |-> r.fields[2],
                                Hour |-> r.fields[3], DayOfMonth |-> r.fields[4],
                                Month |-> r.fields[5], DayOfWeek |-> r.fields[6],
                                HasLastDayOfMonth |-> FALSE, HasLastWeekday |-> FALSE,
                                HasNearestWeekday |-> FALSE, HasNthDayOfWeek |-> FALSE,
                                HasLastDayOfWeek |-> FALSE])>>,
                  err |-> Nil, calls |-> r.calls]
        split(expr, fields) ==
            IF fieldCountInvalid(Len(fields)) \/ (withSeconds <=> Len(fields) # 6)
            THEN [expr |-> Nil, err |-> <<ErrInvalidFieldCount>>, calls |-> <<>>]
            ELSE build(expr, Len(fields),
                       parseFields(fieldExprs(fields), 1, <<>>, <<>>))
        expand(expr, key) ==
            IF HasPrefix(expr, "@")
            THEN IF key \notin DOMAIN predefinedExpressions
                 THEN [expr |-> Nil,
                       err |-> <<NewParseError(expr, "", "", "unknown predefined expression")>>,
                       calls |-> <<>>]
                 ELSE split(predefinedExpressions[key], Fields(predefinedExpressions[key]))
            ELSE split(expr, Fields(expr))
        trim(expr) ==
            IF expr = "" THEN [expr |-> Nil, err |-> <<ErrEmptyExpression>>, calls |-> <<>>]
            ELSE expand(expr, ToLower(expr))
    IN  trim(TrimSpace(str))

\* parseCron: (*Expression, error), with the FieldParser.Parse calls made.  The
\* option only sets cronParser.seconds, which nothing reads.
parseCron(str, withSeconds) ==
    LET build(expr, fieldCount, r) ==
            IF r.err # Nil THEN [expr |-> Nil, err |-> r.err, calls |-> r.calls]
            ELSE [expr |-> <<detectSpecialFlags(
                               [Raw |-> expr,
                                Type |-> IF fieldCount = 6 THEN ExtendedCron ELSE StandardCron,
                                Second |-> r.fields[1], Minute |-> r.fields[2],
                                Hour |-> r.fields[3], DayOfMonth |-> r.fields[4],
                                Month |-> r.fields[5], DayOfWeek |-> r.fields[6],
                                HasLastDayOfMonth |-> FALSE, HasLastWeekday |-> FALSE,
                                HasNearestWeekday |-> FALSE, HasNthDayOfWeek |-> FALSE,
                                HasLastDayOfWeek |-> FALSE])>>,
                  err |-> Nil, calls |-> r.calls]
        split(expr, fields) ==
            IF fieldCountInvalid(Len(fields))
            THEN [expr |-> Nil, err |-> <<ErrInvalidFieldCount>>, calls |-> <<>>]
            ELSE build(expr, Len(fields),
                       parseFields(fieldExprs(fields), 1, <<>>, <<>>))
        expand(expr, key) ==
            IF HasPrefix(expr, "@")
            THEN IF key \notin DOMAIN predefinedExpressions
                 THEN [expr |-> Nil,
                       err |-> <<NewParseError(expr, "", "", "unknown predefined expression")>>,
                       calls |-> <<>>]
                 ELSE split(predefinedExpressions[key], Fields(predefinedExpressions[key]))
            ELSE split(expr, Fields(expr))
        trim(expr) ==
            IF expr = "" THEN [expr |-> Nil, err |-> <<ErrEmptyExpression>>, calls |-> <<>>]
            ELSE expand(expr, ToLower(expr))
    IN  trim(TrimSpace(str))

\* Expression.HasSpecialDayHandling
HasSpecialDayHandling(e) ==
    e.HasLastDayOfMonth \/ e.HasLastWeekday \/ e.HasNearestWeekday
        \/ e.HasNthDayOfWeek \/ e.HasLastDayOfWeek

\* Matches with the two day fields combined by AND
MatchesAnd(e, second, minute, hour, day, month, weekday) ==
    LET domMatch == Contains(e.DayOfMonth, day)
        dowMatch == Contains(e.DayOfWeek, weekday)
    IN  IF ~Contains(e.Second, second) THEN FALSE
        ELSE IF ~Contains(e.Minute, minute) THEN FALSE
        ELSE IF ~Contains(e.Hour, hour) THEN FALSE
        ELSE IF ~Contains(e.Month, month) THEN FALSE
        ELSE IF IsAll(e.DayOfMonth) /\ IsAll(e.DayOfWeek) THEN TRUE
        ELSE IF IsAll(e.DayOfMonth) THEN dowMatch
        ELSE IF IsAll(e.DayOfWeek) THEN domMatch
        ELSE domMatch /\ dowMatch

\* Expression.Matches
Matches(e, second, minute, hour, day, month, weekday) ==
    LET domMatch == Contains(e.DayOfMonth, day)
        dowMatch == Contains(e.DayOfWeek, weekday)
    IN  IF ~Contains(e.Second, second) THEN FALSE
        ELSE IF ~Contains(e.Minute, minute) THEN FALSE
        ELSE IF ~Contains(e.Hour, hour) THEN FALSE
        ELSE IF ~Contains(e.Month, month) THEN FALSE
        ELSE IF IsAll(e.DayOfMonth) /\ IsAll(e.DayOfWeek) THEN TRUE
        ELSE IF IsAll(e.DayOfMonth) THEN dowMatch
        ELSE IF IsAll(e.DayOfWeek) THEN domMatch
        ELSE domMatch \/ dowMatch

(***************************************************************************)
(* The time package as scheduler.go uses it.  An instant is a number of    *)
(* seconds since 1970-01-01T00:00:00Z (with a nanosecond part where the    *)
(* caller supplies one); a location is "UTC" or "America/New_York".        *)
(***************************************************************************)
SecondsPerMinute == 60

SecondsPerHour == 3600

SecondsPerDay == 86400

\* the years the calendar functions are evaluated for
Years == 2015 .. 2037

IsLeap(y) == (y % 4 = 0 /\ y % 100 # 0) \/ y % 400 = 0

\* days from 1970-01-01 to January 1st of year y
DaysBeforeYear(y) ==
    365 * (y - 1970) + ((y - 1969) \div 4) - ((y - 1901) \div 100) + ((y - 1601) \div 400)

\* days from January 1st to the first of month m (1..12) of year y
DaysBeforeMonth(y, m) ==
    <<0, 31, 59, 90, 120, 151, 181, 212, 243, 273, 304, 334>>[m]
        + (IF m > 2 /\ IsLeap(y) THEN 1 ELSE 0)

\* the day number of a civil date as time.Date normalises it: the month may lie
\* outside 1..12 and the day outside the month
DaysFromCivil(y, m, d) ==
    LET yy == y + ((m - 1) \div 12)
        mm == ((m - 1) % 12) + 1
    IN  DaysBeforeYear(yy) + DaysBeforeMonth(yy, mm) + (d - 1)

\* the civil date of a day number
CivilFromDays(n) ==
    LET y == CHOOSE yy \in Years : DaysBeforeYear(yy) <= n /\ n < DaysBeforeYear(yy + 1)
        m == CHOOSE mm \in 1..12 :
                /\ DaysBeforeYear(y) + DaysBeforeMonth(y, mm) <= n
                /\ (mm = 12 \/ n < DaysBeforeYear(y) + DaysBeforeMonth(y, mm + 1))
    IN  [year |-> y, month |-> m, day |-> n - DaysBeforeYear(y) - DaysBeforeMonth(y, m) + 1]

\* time.Weekday of a day number: 0 = Sunday; 1970-01-01 was a Thursday
WeekdayOfDays(n) == (n + 4) % 7

UTC == "UTC"

NewYork == "America/New_York"

EST == -18000

EDT == -14400

\* the day of month of the k-th Sunday of month m of year y
NthSunday(y, m, k) ==
    1 + ((7 - WeekdayOfDays(DaysFromCivil(y, m, 1))) % 7) + 7 * (k - 1)

\* America/New_York: daylight time from the second Sunday of March, 02:00 EST, to
\* the first Sunday of November, 02:00 EDT
DstStart(y) == DaysFromCivil(y, 3, NthSunday(y, 3, 2)) * SecondsPerDay + 2 * SecondsPerHour - EST

DstEnd(y) == DaysFromCivil(y, 11, NthSunday(y, 11, 1)) * SecondsPerDay + 2 * SecondsPerHour - EDT

\* the offset from UTC in force at instant u
ZoneOffset(loc, u) ==
    IF loc = UTC THEN 0
    ELSE LET y == CivilFromDays(u \div SecondsPerDay).year
         IN  IF DstStart(y) <= u /\ u < DstEnd(y) THEN EDT ELSE EST

ZoneOffsets(loc) == IF loc = UTC THEN {0} ELSE {EST, EDT}

\* t.In(loc) read through Year(), Month(), Day(), Hour(), Minute(), Second(), Weekday()
Clock(loc, u) ==
    LET w == u + ZoneOffset(loc, u)
        c == CivilFromDays(w \div SecondsPerDay)
        r == w % SecondsPerDay
    IN  [year |-> c.year, month |-> c.month, day |-> c.day,
         hour |-> r \div SecondsPerHour,
         minute |-> (r % SecondsPerHour) \div SecondsPerMinute,
         second |-> r % SecondsPerMinute,
         weekday |-> WeekdayOfDays(w \div SecondsPerDay)]

\* time.Date(y, m, d, h, mi, s, 0, loc): the instants it may return.  A wall-clock
\* reading that a transition repeats or skips has two candidates, and Date is
\* documented to return one that is correct in one of the two zones of the
\* transition without saying which.
Date(loc, y, m, d, h, mi, s) ==
    LET w     == DaysFromCivil(y, m, d) * SecondsPerDay + h * SecondsPerHour
                    + mi * SecondsPerMinute + s
        cands == {w - off : off \in ZoneOffsets(loc)}
        exact == {u \in cands : u + ZoneOffset(loc, u) = w}
    IN  IF exact # {} THEN exact ELSE cands

(***************************************************************************)
(* scheduler.go.  A cursor is an instant on a whole second; the helpers    *)
(* that build a time with time.Date yield the set of instants it may       *)
(* return.                                                                 *)
(***************************************************************************)
DefaultMaxIterations == 366 * 24 * 60

DefaultSearchYears == 5

\* time.Time{}, the zero instant; it lies outside the instants of the model
ZeroTime == <<>>

\* t.Truncate(time.Second) of an instant given with its nanosecond part
TruncateSecond(x) == x.sec

\* t.AddDate(years, months, days) in the scheduler's location
AddDate(loc, u, years, months, days) ==
    LET add(c) == Date(loc, c.year + years, c.month + months, c.day + days,
                       c.hour, c.minute, c.second)
    IN  add(Clock(loc, u))

\* lastDayOfMonth without leap years
lastDayOfMonthNoLeap(year, month) ==
    IF month \in {4, 6, 9, 11} THEN 30 ELSE IF month = 2 THEN 28 ELSE 31

\* Scheduler.lastDayOfMonth: the day before the first of month + 1.  Midnight is
\* never repeated or skipped in the two locations, so the dates are unambiguous.
lastDayOfMonth(year, month) == CivilFromDays(DaysFromCivil(year, month + 1, 1) - 1).day

RECURSIVE backToWeekday(_)
\* the loop of lastWeekdayOfMonth, on day numbers
backToWeekday(d) == IF WeekdayOfDays(d) = 6 \/ WeekdayOfDays(d) = 0 THEN backToWeekday(d - 1) ELSE d

\* Scheduler.lastWeekdayOfMonth
lastWeekdayOfMonth(year, month) ==
    CivilFromDays(backToWeekday(DaysFromCivil(year, month, lastDayOfMonth(year, month)))).day

\* nearestWeekday that always moves a Saturday to the day before
nearestWeekdayBack(year, month, day) ==
    LET pick(lastDay, d) ==
            CASE WeekdayOfDays(DaysFromCivil(year, month, d)) = 6 -> d - 1
              [] WeekdayOfDays(DaysFromCivil(year, month, d)) = 0 ->
                    IF d < lastDay THEN d + 1 ELSE d - 2
              [] OTHER -> d
        clamp(lastDay) == pick(lastDay, IF day > lastDay THEN lastDay ELSE day)
    IN  clamp(lastDayOfMonth(year, month))

\* Scheduler.nearestWeekday
nearestWeekday(year, month, day) ==
    LET pick(lastDay, d) ==
            CASE WeekdayOfDays(DaysFromCivil(year, month, d)) = 6 ->
                    IF d > 1 THEN d - 1 ELSE d + 2
              [] WeekdayOfDays(DaysFromCivil(year, month, d)) = 0 ->
                    IF d < lastDay THEN d + 1 ELSE d - 2
              [] OTHER -> d
        clamp(lastDay) == pick(lastDay, IF day > lastDay THEN lastDay ELSE day)
    IN  clamp(lastDayOfMonth(year, month))

RECURSIVE backToTarget(_, _)
\* the loop of lastWeekdayOccurrence, on day numbers
backToTarget(d, targetWeekday) ==
    IF WeekdayOfDays(d) # targetWeekday THEN backToTarget(d - 1, targetWeekday) ELSE d

\* lastWeekdayOccurrence that starts its walk on the day before the last day
lastWeekdayOccurrenceBefore(year, month, targetWeekday) ==
    CivilFromDays(backToTarget(DaysFromCivil(year, month, lastDayOfMonth(year, month)) - 1,
                               targetWeekday)).day

\* Scheduler.lastWeekdayOccurrence
lastWeekdayOccurrence(year, month, targetWeekday) ==
    CivilFromDays(backToTarget(DaysFromCivil(year, month, lastDayOfMonth(year, month)),
                               targetWeekday)).day

RECURSIVE forwardToTarget(_, _)
\* the first loop of nthWeekdayOfMonth, on day numbers
forwardToTarget(d, targetWeekday) ==
    IF WeekdayOfDays(d) # targetWeekday THEN forwardToTarget(d + 1, targetWeekday) ELSE d

\* Scheduler.nthWeekdayOfMonth: 0 when the month has no n-th occurrence
nthWeekdayOfMonth(year, month, targetWeekday, n) ==
    LET check(c) == IF c.month # month THEN 0 ELSE c.day
    IN  check(CivilFromDays(forwardToTarget(DaysFromCivil(year, month, 1), targetWeekday)
                                + (n - 1) * 7))

\* the standard day matching with two restricted day fields combined by AND
standardDayAnd(e, c) ==
    IF IsAll(e.DayOfMonth) /\ IsAll(e.DayOfWeek) THEN TRUE
    ELSE IF IsAll(e.DayOfMonth) THEN Contains(e.DayOfWeek, c.weekday)
    ELSE IF IsAll(e.DayOfWeek) THEN Contains(e.DayOfMonth, c.day)
    ELSE Contains(e.DayOfMonth, c.day) /\ Contains(e.DayOfWeek, c.weekday)

\* the standard day matching that ends matchesDay and matchesSpecialDay
standardDay(e, c) ==
    IF IsAll(e.DayOfMonth) /\ IsAll(e.DayOfWeek) THEN TRUE
    ELSE IF IsAll(e.DayOfMonth) THEN Contains(e.DayOfWeek, c.weekday)
    ELSE IF IsAll(e.DayOfWeek) THEN Contains(e.DayOfMonth, c.day)
    ELSE Contains(e.DayOfMonth, c.day) \/ Contains(e.DayOfWeek, c.weekday)

\* Scheduler.matchesSpecialDay on the clock reading c
matchesSpecialDay(e, c) ==
    LET checks(lastDay) ==
            \/ e.HasLastDayOfMonth /\ 32 \in e.DayOfMonth.Values /\ c.day = lastDay
            \/ \E v \in e.DayOfMonth.Values :
                  v > 32 /\ v < 100 /\ lastDay - (v - 32) > 0 /\ c.day = lastDay - (v - 32)
            \/ e.HasLastWeekday /\ 33 \in e.DayOfMonth.Values
                  /\ c.day = lastWeekdayOfMonth(c.year, c.month)
            \/ e.HasNearestWeekday
                  /\ \E v \in e.DayOfMonth.Values :
                        v >= 101 /\ v <= 131 /\ c.day = nearestWeekday(c.year, c.month, v - 100)
            \/ e.HasLastDayOfWeek
                  /\ \E v \in e.DayOfWeek.Values :
                        v >= 10 /\ v <= 16
                            /\ c.day = lastWeekdayOccurrence(c.year, c.month, v - 10)
                            /\ c.weekday = v - 10
            \/ e.HasNthDayOfWeek
                  /\ \E v \in e.DayOfWeek.Values :
                        v >= 21 /\ v <= 75
                            /\ nthWeekdayOfMonth(c.year, c.month, (v - 20) \div 10, (v - 20) % 10) > 0
                            /\ c.day = nthWeekdayOfMonth(c.year, c.month, (v - 20) \div 10,
                                                         (v - 20) % 10)
                            /\ c.weekday = (v - 20) \div 10
            \/ standardDay(e, c)
    IN  checks(lastDayOfMonth(c.year, c.month))

\* Scheduler.matchesDay on the clock reading c
matchesDay(e, c) ==
    IF HasSpecialDayHandling(e) THEN matchesSpecialDay(e, c) ELSE standardDay(e, c)

RECURSIVE nextMonthFrom(_, _, _, _, _)
\* the loop of nextMonth
nextMonthFrom(e, loc, year, month, i) ==
    LET try(y, m) == IF Contains(e.Month, m) THEN Date(loc, y, m, 1, 0, 0, 0)
                     ELSE nextMonthFrom(e, loc, y, m, i + 1)
    IN  IF i >= 12 THEN Date(loc, year + 1, 1, 1, 0, 0, 0)
        ELSE IF month + 1 > 12 THEN try(year + 1, 1) ELSE try(year, month + 1)

\* Scheduler.nextMonth
nextMonth(e, loc, u) ==
    LET from(c) == nextMonthFrom(e, loc, c.year, c.month, 0)
    IN  from(Clock(loc, u))

RECURSIVE prevMonthFrom(_, _, _, _, _)
\* the loop of prevMonth
prevMonthFrom(e, loc, year, month, i) ==
    LET try(y, m) == IF Contains(e.Month, m)
                     THEN Date(loc, y, m, lastDayOfMonth(y, m), 23, 59, 59)
                     ELSE prevMonthFrom(e, loc, y, m, i + 1)
    IN  IF i >= 12 THEN Date(loc, year - 1, 12, 31, 23, 59, 59)
        ELSE IF month - 1 < 1 THEN try(year - 1, 12) ELSE try(year, month - 1)

\* Scheduler.prevMonth
prevMonth(e, loc, u) ==
    LET from(c) == prevMonthFrom(e, loc, c.year, c.month, 0)
    IN  from(Clock(loc, u))

\* Scheduler.alignToNextMonth
alignToNextMonth(e, loc, u) ==
    IF ~Contains(e.Month, Clock(loc, u).month) THEN nextMonth(e, loc, u) ELSE {u}

\* Scheduler.nextDay
nextDay(loc, u) ==
    LET from(c) == Date(loc, c.year, c.month, c.day + 1, 0, 0, 0)
    IN  from(Clock(loc, u))

\* prevDay landing on the start of the previous day
prevDayAtMidnight(loc, u) ==
    LET from(c) == Date(loc, c.year, c.month, c.day - 1, 0, 0, 0)
    IN  from(Clock(loc, u))

\* Scheduler.prevDay
prevDay(loc, u) ==
    LET from(c) == Date(loc, c.year, c.month, c.day - 1, 23, 59, 59)
    IN  from(Clock(loc, u))

\* nextHour moving two hours on
nextHourSkipping(loc, u) ==
    LET from(c) == Date(loc, c.year, c.month, c.day, c.hour + 2, 0, 0)
    IN  from(Clock(loc, u))

\* Scheduler.nextHour
nextHour(loc, u) ==
    LET from(c) == Date(loc, c.year, c.month, c.day, c.hour + 1, 0, 0)
    IN  from(Clock(loc, u))

\* Scheduler.prevHour
prevHour(loc, u) ==
    LET from(c) == Date(loc, c.year, c.month, c.day, c.hour - 1, 59, 59)
    IN  from(Clock(loc, u))

\* Scheduler.nextMinute
nextMinute(loc, u) ==
    LET from(c) == Date(loc, c.year, c.month, c.day, c.hour, c.minute + 1, 0)
    IN  from(Clock(loc, u))

\* Scheduler.prevMinute
prevMinute(loc, u) ==
    LET from(c) == Date(loc, c.year, c.month, c.day, c.hour, c.minute - 1, 59)
    IN  from(Clock(loc, u))

\* Scheduler.nextSecond
nextSecond(u) == {u + 1}

\* Scheduler.prevSecond
prevSecond(u) == {u - 1}

\* the first check of the search loop that the clock reading c fails, "none" when
\* all fields match
failedCheck(e, c) ==
    IF ~Contains(e.Month, c.month) THEN "month"
    ELSE IF ~matchesDay(e, c) THEN "day"
    ELSE IF ~Contains(e.Hour, c.hour) THEN "hour"
    ELSE IF ~Contains(e.Minute, c.minute) THEN "minute"
    ELSE IF ~Contains(e.Second, c.second) THEN "second"
    ELSE "none"

\* the jump findNextMatch makes after a failed check
forwardJump(e, loc, u, failed) ==
    CASE failed = "month"  -> nextMonth(e, loc, u)
      [] failed = "day"    -> nextDay(loc, u)
      [] failed = "hour"   -> nextHour(loc, u)
      [] failed = "minute" -> nextMinute(loc, u)
      [] failed = "second" -> nextSecond(u)

\* the jump findPrevMatch makes after a failed check
backwardJump(e, loc, u, failed) ==
    CASE failed = "month"  -> prevMonth(e, loc, u)
      [] failed = "day"    -> prevDay(loc, u)
      [] failed = "hour"   -> prevHour(loc, u)
      [] failed = "minute" -> prevMinute(loc, u)
      [] failed = "second" -> prevSecond(u)

\* Scheduler.IsDue: the arguments it hands to Expression.Matches
IsDueArgs(loc, u) ==
    LET args(c) == [second |-> c.second, minute |-> c.minute, hour |-> c.hour,
                    day |-> c.day, month |-> c.month, weekday |-> c.weekday]
    IN  args(Clock(loc, u))

(***************************************************************************)
(* Field tokens under test.  A token is rendered from a list of parts, so  *)
(* that the set it stands for is known independently of the parser.  A     *)
(* part is [k, a, b, n, style]: single a, range a-b, star */n, rstep       *)
(* a-b/n, vstep a/n, or raw (a string taken as is in style).               *)
(***************************************************************************)
MaxParts == 2

RECURSIVE Itoa(_)
Itoa(i) ==
    IF i < 0 THEN "-" \o Itoa(0 - i)
    ELSE IF i < 10 THEN CharAt(DigitChars, i + 1)
    ELSE Itoa(i \div 10) \o CharAt(DigitChars, (i % 10) + 1)

\* the names a value of a month or day-of-week field may be written as
NameOf(ft, v, style) ==
    LET table == IF ft = FieldMonth THEN monthNames ELSE dayNames
        short == CHOOSE n \in DOMAIN table : table[n] = v /\ Len(n) = 3
        long  == CHOOSE n \in DOMAIN table :
                    table[n] = v /\ \A m \in DOMAIN table : table[m] = v => Len(m) <= Len(n)
    IN  CASE style = "abbr"  -> short
          [] style = "lower" -> ToLower(short)
          [] style = "full"  -> long

RenderValue(ft, v, style) == IF style = "num" THEN Itoa(v) ELSE NameOf(ft, v, style)

\* a special day token: p.style is its form, p.a and p.b its numbers
RenderSpecial(p) ==
    CASE p.style = "L"   -> "L"
      [] p.style = "LW"  -> "LW"
      [] p.style = "L-N" -> "L-" \o Itoa(p.a)
      [] p.style = "NW"  -> Itoa(p.a) \o "W"
      [] p.style = "WL"  -> Itoa(p.a) \o "L"
      [] p.style = "W#K" -> Itoa(p.a) \o "#" \o Itoa(p.b)

RenderPart(ft, p) ==
    CASE p.k = "single" -> RenderValue(ft, p.a, p.style)
      [] p.k = "range"  -> RenderValue(ft, p.a, p.style) \o "-" \o RenderValue(ft, p.b, p.style)
      [] p.k = "star"   -> "*/" \o Itoa(p.n)
      [] p.k = "rstep"  -> RenderValue(ft, p.a, p.style) \o "-" \o RenderValue(ft, p.b, p.style)
                              \o "/" \o Itoa(p.n)
      [] p.k = "vstep"  -> RenderValue(ft, p.a, p.style) \o "/" \o Itoa(p.n)
      [] p.k = "raw"    -> p.style
      [] p.k = "wild"   -> p.style
      [] p.k = "special" -> IF p.n = 1 THEN ToLower(RenderSpecial(p)) ELSE RenderSpecial(p)

RECURSIVE RenderFrom(_, _, _)
RenderFrom(ft, parts, i) ==
    IF i = Len(parts) THEN RenderPart(ft, parts[i])
    ELSE RenderPart(ft, parts[i]) \o "," \o RenderFrom(ft, parts, i + 1)

Render(ft, parts) == RenderFrom(ft, parts, 1)

TestValues(ft) ==
    LET lo == fieldBounds[ft].min
        hi == fieldBounds[ft].max
    IN  {lo - 1, lo, lo + 1, (lo + hi) \div 2, hi - 1, hi, hi + 1}

TestSteps == {-1, 0, 1, 2, 3, 5, 15, 100}

Garbage == {"abc", "1x", "x-5", "5-x", "x/2", "5/x", "1-2-3", "5/", "-"}

NumParts(ft) ==
    [k : {"single"}, a : TestValues(ft), b : {0}, n : {0}, style : {"num"}]
    \cup [k : {"range"}, a : TestValues(ft), b : TestValues(ft), n : {0}, style : {"num"}]
    \cup [k : {"star"}, a : {0}, b : {0}, n : TestSteps, style : {"num"}]
    \cup [k : {"rstep"}, a : TestValues(ft), b : TestValues(ft), n : TestSteps, style : {"num"}]
    \cup [k : {"vstep"}, a : TestValues(ft), b : {0}, n : TestSteps, style : {"num"}]
    \cup [k : {"raw"}, a : {0}, b : {0}, n : {0}, style : Garbage]

NamedParts(ft) ==
    IF ft \notin {FieldMonth, FieldDayOfWeek} THEN {}
    ELSE LET lo == fieldBounds[ft].min
             hi == fieldBounds[ft].max
         IN  [k : {"single"}, a : lo..hi, b : {0}, n : {0}, style : {"abbr", "lower", "full"}]
             \cup [k : {"range", "rstep"}, a : {lo + 1, hi}, b : {lo + 1, hi - 1}, n : {2},
                   style : {"abbr", "lower"}]
             \cup [k : {"vstep"}, a : {lo + 1}, b : {0}, n : {2}, style : {"full"}]

\* the special day tokens, in upper case (n = 0) and lower case (n = 1); they are
\* tried on every field type
SpecialParts ==
    [k : {"special"}, a : {0}, b : {0}, n : {0, 1}, style : {"L", "LW"}]
    \cup [k : {"special"}, a : {1, 3, 30}, b : {0}, n : {0, 1}, style : {"L-N"}]
    \cup [k : {"special"}, a : {1, 15, 31}, b : {0}, n : {0, 1}, style : {"NW"}]
    \cup [k : {"special"}, a : {0, 5, 6}, b : {0}, n : {0, 1}, style : {"WL"}]
    \cup [k : {"special"}, a : {0, 1, 6}, b : {1, 3, 5}, n : {0}, style : {"W#K"}]

\* the parts that are combined into lists
ListParts(ft) ==
    LET lo == fieldBounds[ft].min
        hi == fieldBounds[ft].max
    IN  { [k |-> "single", a |-> lo, b |-> 0, n |-> 0, style |-> "num"],
          [k |-> "single", a |-> hi, b |-> 0, n |-> 0, style |-> "num"],
          [k |-> "single", a |-> hi + 1, b |-> 0, n |-> 0, style |-> "num"],
          [k |-> "range", a |-> lo, b |-> lo + 1, n |-> 0, style |-> "num"],
          [k |-> "range", a |-> lo + 1, b |-> hi - 1, n |-> 0, style |-> "num"],
          [k |-> "range", a |-> hi, b |-> lo, n |-> 0, style |-> "num"],
          [k |-> "star", a |-> 0, b |-> 0, n |-> 3, style |-> "num"],
          [k |-> "star", a |-> 0, b |-> 0, n |-> 0, style |-> "num"],
          [k |-> "rstep", a |-> lo, b |-> hi, n |-> 2, style |-> "num"],
          [k |-> "vstep", a |-> lo + 1, b |-> 0, n |-> 5, style |-> "num"],
          [k |-> "raw", a |-> 0, b |-> 0, n |-> 0, style |-> "abc"],
          [k |-> "special", a |-> 0, b |-> 0, n |-> 0, style |-> "L"],
          [k |-> "special", a |-> 1, b |-> 3, n |-> 0, style |-> "W#K"] }

RECURSIVE Lists(_, _)
\* the lists of exactly len parts
Lists(ft, len) ==
    IF len = 0 THEN {<<>>}
    ELSE {Append(l, p) : l \in Lists(ft, len - 1), p \in ListParts(ft)}

\* lists with as many values as the natural domain of the field, or about as many:
\* lo..hi-1 with L, lo..hi with L, lo..hi alone, and the seven tokens 0L .. 6L
DomainLists(ft) ==
    LET lo == fieldBounds[ft].min
        hi == fieldBounds[ft].max
        L  == [k |-> "special", a |-> 0, b |-> 0, n |-> 0, style |-> "L"]
    IN  { <<[k |-> "range", a |-> lo, b |-> hi - 1, n |-> 0, style |-> "num"], L>>,
          <<[k |-> "range", a |-> lo, b |-> hi, n |-> 0, style |-> "num"], L>>,
          <<[k |-> "range", a |-> lo, b |-> hi, n |-> 0, style |-> "num"]>>,
          [i \in 1..7 |-> [k |-> "special", a |-> i - 1, b |-> 0, n |-> 0, style |-> "WL"]] }

TokenAsts(ft) ==
    {<<p>> : p \in NumParts(ft) \cup NamedParts(ft) \cup SpecialParts}
    \cup UNION {Lists(ft, len) : len \in 2..MaxParts}
    \cup DomainLists(ft)

(***************************************************************************)
(* What a part stands for, stated without the parser.                      *)
(***************************************************************************)
InBounds(ft, v) == fieldBounds[ft].min <= v /\ v <= fieldBounds[ft].max

\* the field type that accepts a special day token
SpecialHome(p) == IF p.style \in {"L", "LW", "L-N", "NW"} THEN FieldDayOfMonth ELSE FieldDayOfWeek

\* the extension code a special day token is documented to be stored as
SpecialCode(p) ==
    CASE p.style = "L"   -> 32
      [] p.style = "LW"  -> 33
      [] p.style = "L-N" -> 32 + p.a
      [] p.style = "NW"  -> 100 + p.a
      [] p.style = "WL"  -> 10 + p.a
      [] p.style = "W#K" -> 20 + p.a * 10 + p.b

\* "ok", or the kind of error the part is documented to give
PartClass(ft, p) ==
    CASE p.k = "raw" -> "FieldError"
      [] p.k = "wild" -> "ok"
      [] p.k = "special" -> IF SpecialHome(p) = ft THEN "ok" ELSE "FieldError"
      [] p.k \in {"star", "rstep", "vstep"} /\ p.n <= 0 -> "StepError"
      [] p.k = "star" -> "ok"
      [] p.k \in {"single", "vstep"} -> IF InBounds(ft, p.a) THEN "ok" ELSE "FieldError"
      [] p.k \in {"range", "rstep"} ->
            IF ~InBounds(ft, p.a) \/ ~InBounds(ft, p.b) THEN "FieldError"
            ELSE IF p.a > p.b THEN "RangeError" ELSE "ok"

\* the values a valid part stands for
Implied(ft, p) ==
    LET lo == fieldBounds[ft].min
        hi == fieldBounds[ft].max
    IN  CASE p.k = "single" -> {p.a}
          [] p.k = "range"  -> p.a .. p.b
          [] p.k = "star"   -> {v \in lo..hi : \E j \in 0..(hi - lo) : v = lo + j * p.n}
          [] p.k = "rstep"  -> {v \in p.a..p.b : \E j \in 0..(hi - lo) : v = p.a + j * p.n}
          [] p.k = "vstep"  -> {v \in p.a..hi : \E j \in 0..(hi - lo) : v = p.a + j * p.n}
          [] p.k = "special" -> {SpecialCode(p)}
          [] p.k = "wild"   -> lo .. hi

AllValid(ft, parts) == \A i \in 1..Len(parts) : PartClass(ft, parts[i]) = "ok"

ImpliedSet(ft, parts) == UNION {Implied(ft, parts[i]) : i \in 1..Len(parts)}

\* the class of the leftmost invalid part
FirstInvalid(ft, parts) ==
    LET i == CHOOSE i \in 1..Len(parts) :
                /\ PartClass(ft, parts[i]) # "ok"
                /\ \A j \in 1..(i - 1) : PartClass(ft, parts[j]) = "ok"
    IN  PartClass(ft, parts[i])

ProbeValues == -2 .. 140

\* the values the variables of an operation hold while it is not modelled
NoParse == [expr |-> Nil, err |-> Nil, calls |-> <<>>]

NoArgs == [second |-> 0, minute |-> 0, hour |-> 0, day |-> 0, month |-> 0, weekday |-> 0]

NoCall == [op |-> "none", from |-> [sec |-> 0, nsec |-> 0], arg |-> 0, n |-> 0, t |-> 0,
           limit |-> 0, iterations |-> 0]

NoResult == [time |-> <<>>, err |-> Nil]

NoBatch == [op |-> "none", from |-> [sec |-> 0, nsec |-> 0], n |-> 0, i |-> 0,
            t |-> [sec |-> 0, nsec |-> 0], results |-> <<>>, calls |-> <<>>,
            ret |-> [results |-> Nil, err |-> Nil]]

\* the goroutines that call one Scheduler at the same time
Threads == {"g1", "g2"}

\* a goroutine that has not called yet; overlap records that another goroutine was
\* inside a call while this one ran
NoThread == [pc |-> "idle", op |-> "none", arg |-> [sec |-> 0, nsec |-> 0],
             call |-> NoCall, result |-> NoResult, batch |-> NoBatch, due |-> FALSE,
             overlap |-> FALSE]

NoThreads == [g \in Threads |-> NoThread]

\* no call of matchesDay yet
NoProbe == [t |-> 0, res |-> FALSE]

(***************************************************************************)
(* SpecField: one call of FieldParser.Parse on a token.                    *)
(***************************************************************************)
InitField ==
    /\ pc = "start"
    /\ fieldType \in FieldTypes
    /\ ast \in TokenAsts(fieldType)
    /\ token = Render(fieldType, ast)
    /\ fieldRes = [field |-> Nil, err |-> Nil]
    /\ raw = "" /\ seconds = FALSE /\ parseRes = NoParse
    /\ matchArgs = NoArgs /\ matchRes = FALSE
    /\ location = UTC /\ call = NoCall /\ result = NoResult
    /\ batch = NoBatch
    /\ threads = NoThreads
    /\ dayProbe = NoProbe

FieldParse ==
    /\ pc = "start"
    /\ fieldRes' = FieldParserParse(fieldType, token)
    /\ pc' = "done"
    /\ UNCHANGED <<fieldType, ast, threads, dayProbe, batch, token, parseVars, matchVars, schedVars>>

NextField == FieldParse

SpecField == InitField /\ [][NextField]_vars


\* C6: a valid token of single values, ranges and steps parses to a field whose
\* Contains(v) is true exactly for the values the token stands for.
C6_ContainsImpliedSet ==
    (pc = "done" /\ AllValid(fieldType, ast)) =>
        /\ fieldRes.err = Nil
        /\ fieldRes.field # Nil
        /\ \A v \in ProbeValues :
              Contains(fieldRes.field[1], v) <=> v \in ImpliedSet(fieldType, ast)

C6_Witness ==
    /\ pc = "done"
    /\ fieldType = FieldMinute
    /\ token = "*/15"
    /\ fieldRes.field # Nil
    /\ fieldRes.field[1].Values = {0, 15, 30, 45}

\* C10: an invalid token yields no Field, and the error is a RangeError for an
\* inverted in-bounds range, a StepError for a step that is zero or negative, and a
\* FieldError for an out-of-bounds or non-numeric value (the leftmost invalid part
\* of a list decides).
C10_ErrorKinds ==
    (pc = "done" /\ ~AllValid(fieldType, ast)) =>
        /\ fieldRes.field = Nil
        /\ fieldRes.err # Nil
        /\ fieldRes.err[1].kind = FirstInvalid(fieldType, ast)
        /\ fieldRes.err[1].field = fieldType

C10_Witness ==
    /\ pc = "done"
    /\ fieldType = FieldHour
    /\ token = "23-0/2"
    /\ fieldRes.field = Nil
    /\ fieldRes.err = <<RangeError(FieldHour, 23, 0)>>

\* C11: a special day token parses only on its own field type: L, LW, L-N and NW on
\* day-of-month, WL and W#K on day-of-week, where it is stored as its extension code;
\* on every other field type FieldParser.Parse returns a FieldError and no Field.
C11_SpecialTokensByField ==
    (pc = "done" /\ Len(ast) = 1 /\ ast[1].k = "special") =>
        IF SpecialHome(ast[1]) = fieldType
        THEN /\ fieldRes.err = Nil
             /\ fieldRes.field # Nil
             /\ fieldRes.field[1].Values = {SpecialCode(ast[1])}
        ELSE /\ fieldRes.field = Nil
             /\ fieldRes.err # Nil
             /\ fieldRes.err[1].kind = "FieldError"
             /\ fieldRes.err[1].field = fieldType

\* "L" handed to the day-of-week parser
C11_Witness ==
    /\ pc = "done"
    /\ fieldType = FieldDayOfWeek
    /\ token = "L"
    /\ fieldRes.field = Nil
    /\ fieldRes.err # Nil
    /\ fieldRes.err[1].kind = "FieldError"


(***************************************************************************)
(* Expressions under test.  A raw string is rendered from its structure:   *)
(* a list of tokens with the whitespace around them, or an @name in some   *)
(* letter case.                                                            *)
(***************************************************************************)
RECURSIVE Join(_, _, _)
Join(toks, sep, i) ==
    IF i > Len(toks) THEN ""
    ELSE IF i = Len(toks) THEN toks[i]
    ELSE toks[i] \o sep \o Join(toks, sep, i + 1)

RECURSIVE Mixed(_, _)
\* every other letter in upper case
Mixed(s, i) ==
    IF i > Len(s) THEN ""
    ELSE (IF i % 2 = 0 THEN UpperChar(CharAt(s, i)) ELSE CharAt(s, i)) \o Mixed(s, i + 1)

RenderRaw(a) ==
    LET body == IF a.kind = "tokens" THEN Join(a.toks, a.sep, 1)
                ELSE CASE a.style = "lower" -> a.name
                       [] a.style = "upper" -> ToUpper(a.name)
                       [] a.style = "mixed" -> Mixed(a.name, 1)
    IN  a.lead \o body \o a.trail

WsStyles ==
    { [lead |-> "", sep |-> " ", trail |-> ""],
      [lead |-> "  ", sep |-> "  ", trail |-> " "],
      [lead |-> "", sep |-> "\t", trail |-> "\t"] }

\* expressions without special day tokens
PlainExprs ==
    { <<"0", "0", "15", "*", "1">>, <<"0", "0", "*", "*", "*">>, <<"0", "0", "15", "*", "*">>,
      <<"0", "0", "*", "*", "1">>, <<"0", "0", "1-31", "*", "1">>,
      <<"0", "0", "15", "*", "0-6">>, <<"0", "0", "?", "*", "MON-FRI">>,
      <<"*/15", "*", "*", "*", "*">>, <<"0", "9", "*", "*", "1-5">>,
      <<"0", "0", "1", "*", "*">>, <<"0", "0", "1,15", "JAN,jun", "1,3">>,
      <<"0", "0", "1", "1", "*">>, <<"0", "0", "*", "*", "0">>, <<"0", "*", "*", "*", "*">>,
      <<"30", "0", "9", "*", "*", "1-5">>, <<"*/10", "*", "*", "*", "*", "*">>,
      <<"0,30", "15", "0", "14-16", "6", "2">>, <<"5", "0", "0", "15", "*", "1">> }

\* expressions with special day tokens
SpecialExprs ==
    { <<"0", "0", "L", "*", "*">>, <<"0", "0", "LW", "*", "*">>, <<"0", "0", "L-3", "*", "*">>,
      <<"0", "0", "L-1", "*", "*">>, <<"0", "0", "15W", "*", "*">>,
      <<"0", "0", "*", "*", "5L">>, <<"0", "0", "*", "*", "1#3">>,
      <<"0", "0", "15,L", "*", "*">>, <<"0", "0", "L", "*", "1">>,
      <<"0", "0", "1-30,L", "*", "*">>, <<"0", "0", "1-31,L", "*", "*">>,
      <<"0", "0", "*", "*", "0L,1L,2L,3L,4L,5L,6L">>, <<"0", "0", "0", "lw", "*", "0#5">>,
      <<"0", "0", "*", "*", "6#2">>, <<"0", "0", "1W,L-2", "*", "6L">> }

\* expressions with one or more invalid fields
InvalidExprs ==
    { <<"60", "*", "*", "*", "*">>, <<"*", "24", "*", "*", "*">>, <<"*", "*", "32", "*", "*">>,
      <<"*", "*", "*", "13", "*">>, <<"*", "*", "*", "*", "7">>, <<"*", "*", "*", "*", "abc">>,
      <<"60", "24", "*", "*", "*">>, <<"*", "5-1", "*", "*/0", "*">>,
      <<"61", "*", "*", "*", "*", "*">>, <<"*", "*", "*", "L", "*">>,
      <<"*", "*", "*", "*", "L", "8">>, <<"*", "*", "0", "13", "8">>,
      <<"5", "*", "*", "5-1", "JANUARY-x", "*/0">>, <<"0", "0", "0", "*", "*">>,
      <<"0", "0", "1", "0-6", "*">> }

\* token lists whose length is not 5 or 6
MiscountExprs ==
    { <<>>, <<"*">>, <<"*", "*", "*">>, <<"0", "0", "1", "1">>,
      <<"*", "*", "*", "*", "*", "*", "*">>, <<"0", "0", "0", "1", "1", "*", "2024", "x">> }

ShortcutNames ==
    {"@yearly", "@annually", "@monthly", "@weekly", "@daily", "@midnight", "@hourly"}

OtherAtNames == {"@", "@every", "@dailyx", "@daily 5", "@ daily", "@reboot", "@0 0 * * *"}

ParseAsts ==
    { [kind |-> "tokens", name |-> "", style |-> "", toks |-> t,
       lead |-> w.lead, sep |-> w.sep, trail |-> w.trail] :
         t \in PlainExprs \cup SpecialExprs \cup InvalidExprs \cup MiscountExprs, w \in WsStyles }
    \cup
    { [kind |-> "shortcut", name |-> n, style |-> st, toks |-> <<>>,
       lead |-> w.lead, sep |-> "", trail |-> w.trail] :
         n \in ShortcutNames \cup OtherAtNames, st \in {"lower", "upper", "mixed"},
         w \in WsStyles }

MatchProbes ==
    [second : {0, 30}, minute : {0, 15}, hour : {0}, day : {1, 14, 15, 16, 30, 31},
     month : {1, 6}, weekday : 0..6]

(***************************************************************************)
(* SpecParse: Parse or ParseWithSeconds of a raw string, then one call of  *)
(* Expression.Matches on the Expression it returned.                       *)
(***************************************************************************)
InitParse ==
    /\ pc = "start"
    /\ ast \in ParseAsts
    /\ raw = RenderRaw(ast)
    /\ seconds \in BOOLEAN
    /\ parseRes = NoParse
    /\ fieldType = FieldSecond /\ token = "" /\ fieldRes = [field |-> Nil, err |-> Nil]
    /\ matchArgs = NoArgs /\ matchRes = FALSE
    /\ location = UTC /\ call = NoCall /\ result = NoResult
    /\ batch = NoBatch
    /\ threads = NoThreads
    /\ dayProbe = NoProbe

\* Parse(raw) or ParseWithSeconds(raw)
Parse ==
    /\ pc = "start"
    /\ parseRes' = parseCron(raw, seconds)
    /\ pc' = "parsed"
    /\ UNCHANGED <<ast, threads, dayProbe, batch, raw, seconds, fieldVars, matchVars, schedVars>>

\* Expression.Matches on the parsed Expression
Match ==
    /\ pc = "parsed"
    /\ parseRes.expr # Nil
    /\ \E a \in MatchProbes :
          /\ matchArgs' = a
          /\ matchRes' = Matches(parseRes.expr[1], a.second, a.minute, a.hour,
                                 a.day, a.month, a.weekday)
    /\ pc' = "matched"
    /\ UNCHANGED <<ast, threads, dayProbe, batch, fieldVars, parseVars, schedVars>>

NextParse == Parse \/ Match

SpecParse == InitParse /\ [][NextParse]_vars

\* every value of the field's natural domain is in the set
NaturalAll(f) == \A v \in fieldBounds[f.Type].min .. fieldBounds[f.Type].max : v \in f.Values

\* the day sets hold no extension code
NoSpecialTokens(e) == e.DayOfMonth.Values \subseteq 1..31 /\ e.DayOfWeek.Values \subseteq 0..6

\* C5: without special day tokens, once second, minute, hour and month are contained,
\* Matches is TRUE if both day fields are "all", containment in the other field if
\* exactly one is "all", and (day-of-month contains day) OR (day-of-week contains
\* weekday) if neither is.
C5_DayOrPolicy ==
    (pc = "matched" /\ NoSpecialTokens(parseRes.expr[1])) =>
        LET e   == parseRes.expr[1]
            a   == matchArgs
            dom == a.day \in e.DayOfMonth.Values
            dow == a.weekday \in e.DayOfWeek.Values
            timeOk == /\ a.second \in e.Second.Values /\ a.minute \in e.Minute.Values
                      /\ a.hour \in e.Hour.Values /\ a.month \in e.Month.Values
        IN  matchRes =
              (timeOk /\ CASE NaturalAll(e.DayOfMonth) /\ NaturalAll(e.DayOfWeek) -> TRUE
                           [] NaturalAll(e.DayOfMonth) /\ ~NaturalAll(e.DayOfWeek) -> dow
                           [] ~NaturalAll(e.DayOfMonth) /\ NaturalAll(e.DayOfWeek) -> dom
                           [] OTHER -> dom \/ dow)

\* "0 0 15 * 1" on a 15th that is not a Monday
C5_Witness ==
    /\ pc = "matched"
    /\ ast.toks = <<"0", "0", "15", "*", "1">>
    /\ matchArgs = [second |-> 0, minute |-> 0, hour |-> 0, day |-> 15, month |-> 6,
                    weekday |-> 6]
    /\ matchRes = TRUE

\* C7: an empty or whitespace-only string fails with ErrEmptyExpression, a string of
\* tokens whose count is not 5 or 6 with ErrInvalidFieldCount; both without any
\* FieldParser.Parse call and without an Expression, and neither error is reported
\* for a string of 5 or 6 tokens.
C7_EmptyAndFieldCount ==
    (pc # "start" /\ ast.kind = "tokens") =>
        /\ Len(ast.toks) = 0 =>
              parseRes = [expr |-> Nil, err |-> <<ErrEmptyExpression>>, calls |-> <<>>]
        /\ (Len(ast.toks) > 0 /\ Len(ast.toks) \notin {5, 6}) =>
              parseRes = [expr |-> Nil, err |-> <<ErrInvalidFieldCount>>, calls |-> <<>>]
        /\ Len(ast.toks) \in {5, 6} =>
              parseRes.err \notin {<<ErrEmptyExpression>>, <<ErrInvalidFieldCount>>}
        /\ ErrEmptyExpression # ErrInvalidFieldCount

C7_Witness ==
    /\ pc = "parsed"
    /\ raw = "*\t*\t*\t*\t*\t*\t*\t"
    /\ parseRes.err = <<ErrInvalidFieldCount>>

\* the expansions the documentation gives
ShortcutExpansion ==
    [n \in ShortcutNames |->
        CASE n \in {"@yearly", "@annually"} -> <<"0", "0", "1", "1", "*">>
          [] n = "@monthly"                 -> <<"0", "0", "1", "*", "*">>
          [] n = "@weekly"                  -> <<"0", "0", "*", "*", "0">>
          [] n \in {"@daily", "@midnight"}  -> <<"0", "0", "*", "*", "*">>
          [] n = "@hourly"                  -> <<"0", "*", "*", "*", "*">>]

\* the parts of an Expression that C8 compares
Content(e) ==
    <<e.Second.Values, e.Minute.Values, e.Hour.Values, e.DayOfMonth.Values, e.Month.Values,
      e.DayOfWeek.Values, e.Type, e.HasLastDayOfMonth, e.HasLastWeekday, e.HasNearestWeekday,
      e.HasNthDayOfWeek, e.HasLastDayOfWeek>>

\* C8: a predefined shortcut in any letter case parses to the same field sets, type
\* and flags as its expansion; any other string starting with @ fails and returns no
\* Expression.
C8_Shortcuts ==
    (pc # "start" /\ ast.kind = "shortcut") =>
        IF ast.name \in ShortcutNames
        THEN /\ parseRes.err = Nil
             /\ parseRes.expr # Nil
             /\ LET other == parseCron(Join(ShortcutExpansion[ast.name], " ", 1), seconds)
                IN  other.expr # Nil /\ Content(parseRes.expr[1]) = Content(other.expr[1])
        ELSE parseRes.expr = Nil /\ parseRes.err # Nil

C8_Witness ==
    /\ pc = "parsed"
    /\ raw = "  @WeEkLy "
    /\ parseRes.expr # Nil
    /\ parseRes.expr[1].DayOfWeek.Values = {0}
    /\ parseRes.expr[1].Minute.Values = {0}


\* the six field strings of a list of 5 or 6 tokens, in expression order
TokensInOrder(toks) == IF Len(toks) = 5 THEN <<"0">> \o toks ELSE toks

\* the positions, in expression order, of the tokens their field parser rejects
InvalidPositions(toks) ==
    {i \in 1..6 : FieldParserParse(FieldOrder[i], TokensInOrder(toks)[i]).err # Nil}

\* C12: when some field token of a 5- or 6-token expression is invalid, Parse returns no
\* Expression and the error of the leftmost invalid field in the order second, minute,
\* hour, day-of-month, month, day-of-week, which names that field; an Expression is
\* never returned together with an error.
C12_FailFastLeftmost ==
    (pc # "start" /\ ast.kind = "tokens" /\ Len(ast.toks) \in {5, 6}) =>
        LET bad == InvalidPositions(ast.toks)
            first == CHOOSE i \in bad : \A j \in bad : i <= j
        IN  /\ bad # {} =>
                  /\ parseRes.expr = Nil
                  /\ parseRes.err = FieldParserParse(FieldOrder[first],
                                                     TokensInOrder(ast.toks)[first]).err
                  /\ parseRes.err[1].field = FieldOrder[first]
            /\ bad = {} => parseRes.expr # Nil /\ parseRes.err = Nil
            /\ parseRes.err # Nil => parseRes.expr = Nil

\* "5 * * 5-1 JANUARY-x */0": the inverted day-of-month range is reported, not the
\* month or the day-of-week
C12_Witness ==
    /\ pc = "parsed"
    /\ raw = "5 * * 5-1 JANUARY-x */0"
    /\ parseRes.expr = Nil
    /\ parseRes.err = <<RangeError(FieldDayOfMonth, 5, 1)>>

(***************************************************************************)
(* SpecSched: Parse of an expression, NewScheduler with a location, one    *)
(* NextN or PreviousN call run loop iteration by loop iteration, and       *)
(* IsDue on the instant it returned.                                       *)
(***************************************************************************)
MaxN == 2

Locations == {UTC, NewYork}

\* the instant of a UTC date and time
Instant(y, m, d, h, mi, s) ==
    DaysFromCivil(y, m, d) * SecondsPerDay + h * SecondsPerHour + mi * SecondsPerMinute + s

\* the instants the calls start from, some with a fraction of a second; 2024-03-10
\* and 2024-11-03 are the days the New York clocks change
FromTimes ==
    { [sec |-> Instant(2024, 1, 1, 8, 0, 0), nsec |-> 0],
      [sec |-> Instant(2024, 1, 15, 12, 0, 0), nsec |-> 0],
      [sec |-> Instant(2024, 2, 1, 0, 0, 0), nsec |-> 0],
      [sec |-> Instant(2024, 2, 1, 0, 0, 0), nsec |-> 500000000],
      [sec |-> Instant(2024, 2, 29, 23, 59, 59), nsec |-> 500000000],
      [sec |-> Instant(2024, 3, 10, 5, 30, 0), nsec |-> 0],
      [sec |-> Instant(2024, 11, 3, 6, 30, 30), nsec |-> 0],
      [sec |-> Instant(2025, 6, 15, 10, 20, 30), nsec |-> 250000000] }

SchedExprs ==
    { <<"0", "9", "*", "*", "1-5">>, <<"0", "0", "1", "*", "*">>, <<"0", "0", "15", "*", "1">>,
      <<"*/15", "*", "*", "*", "*">>, <<"*/5", "*", "*", "*", "*">>,
      <<"0", "0", "1,15", "JAN,jun", "1,3">>, <<"0", "0", "29", "2", "*">>,
      <<"0", "0", "30", "2", "*">>, <<"30", "2", "*", "*", "*">>, <<"30", "1", "*", "*", "0">>,
      <<"59", "23", "31", "12", "*">>, <<"*", "*", "*", "*", "*">>,
      <<"*", "*", "*", "*", "*", "*">>, <<"0", "31", "*", "*", "*", "*">>,
      <<"30", "0", "9", "*", "*", "1-5">>, <<"*/10", "*", "*", "*", "*", "*">>,
      <<"59", "59", "23", "*", "*", "*">>, <<"15", "*/20", "1-2", "*", "3,11", "*">>,
      <<"0", "0", "L", "*", "*">>, <<"0", "0", "LW", "*", "*">>, <<"0", "0", "L-3", "*", "*">>,
      <<"0", "0", "15W", "*", "*">>, <<"0", "0", "*", "*", "5L">>, <<"0", "0", "*", "*", "1#3">>,
      <<"0", "0", "15,L", "*", "*">>, <<"0", "0", "L", "*", "1">>,
      <<"0", "0", "*", "*", "0#5">>, <<"30", "0", "0", "L", "2", "*">> }

SchedAsts ==
    { [kind |-> "tokens", name |-> "", style |-> "", toks |-> x,
       lead |-> "", sep |-> " ", trail |-> ""] : x \in SchedExprs }
    \cup
    { [kind |-> "shortcut", name |-> x, style |-> "lower", toks |-> <<>>,
       lead |-> "", sep |-> "", trail |-> ""] : x \in {"@hourly"} }

InitSched ==
    /\ pc = "start"
    /\ ast \in SchedAsts
    /\ raw = RenderRaw(ast)
    /\ seconds = FALSE
    /\ parseRes = NoParse
    /\ fieldType = FieldSecond /\ token = "" /\ fieldRes = [field |-> Nil, err |-> Nil]
    /\ matchArgs = NoArgs /\ matchRes = FALSE
    /\ location = UTC /\ call = NoCall /\ result = NoResult
    /\ batch = NoBatch
    /\ threads = NoThreads
    /\ dayProbe = NoProbe

\* NewScheduler(expr) or NewScheduler(expr, WithLocation(loc))
NewScheduler ==
    /\ pc = "parsed"
    /\ parseRes.expr # Nil
    /\ location' \in Locations
    /\ pc' = "ready"
    /\ UNCHANGED <<ast, threads, dayProbe, batch, fieldVars, parseVars, matchVars, call, result>>

\* NextN(from, n) up to its loop; Next(from) is NextN(from, 1)
NextN ==
    /\ pc = "ready"
    /\ \E from \in FromTimes, n \in 1..MaxN :
          \E maxTime \in AddDate(location, TruncateSecond([from EXCEPT !.sec = @ + 1]),
                                 DefaultSearchYears, 0, 0) :
              call' = [op |-> "next", from |-> from, arg |-> n,
                       n |-> IF n < 1 THEN 1 ELSE n,
                       t |-> TruncateSecond([from EXCEPT !.sec = @ + 1]),
                       limit |-> maxTime, iterations |-> 0]
    /\ pc' = "nextN"
    /\ UNCHANGED <<ast, threads, dayProbe, batch, fieldVars, parseVars, matchVars, location, result>>

\* one test of the loop of NextN and, inside it, findNextMatch up to its loop
NextNLoop ==
    /\ pc = "nextN"
    /\ IF call.t < call.limit /\ call.iterations < DefaultMaxIterations * 60
       THEN \E u \in alignToNextMonth(parseRes.expr[1], location, call.t) :
               IF u > call.limit
               THEN /\ call' = [call EXCEPT !.iterations = @ + 1]
                    /\ result' = [time |-> ZeroTime, err |-> <<ErrNoNextRun>>]
                    /\ pc' = "done"
               ELSE /\ call' = [call EXCEPT !.iterations = @ + 1, !.t = u]
                    /\ pc' = "findNext"
                    /\ UNCHANGED result
       ELSE /\ result' = [time |-> ZeroTime, err |-> <<ErrNoNextRun>>]
            /\ pc' = "done"
            /\ UNCHANGED call
    /\ UNCHANGED <<ast, threads, dayProbe, batch, fieldVars, parseVars, matchVars, location>>

\* one iteration of the loop of findNextMatch; when all fields match, the rest of the
\* iteration of NextN
FindNextStep ==
    /\ pc = "findNext"
    /\ LET step(failed) ==
               IF failed = "none"
               THEN IF call.n - 1 <= 0
                    THEN /\ call' = [call EXCEPT !.n = @ - 1]
                         /\ result' = [time |-> <<call.t>>, err |-> Nil]
                         /\ pc' = "done"
                    ELSE /\ call' = [call EXCEPT !.n = @ - 1, !.t = @ + 1]
                         /\ pc' = "nextN"
                         /\ UNCHANGED result
               ELSE /\ \E u \in forwardJump(parseRes.expr[1], location, call.t, failed) :
                          call' = [call EXCEPT !.t = u]
                    /\ pc' = "findNext"
                    /\ UNCHANGED result
       IN  IF call.t < call.limit
           THEN step(failedCheck(parseRes.expr[1], Clock(location, call.t)))
           ELSE /\ result' = [time |-> ZeroTime, err |-> <<ErrNoNextRun>>]
                /\ pc' = "done"
                /\ UNCHANGED call
    /\ UNCHANGED <<ast, threads, dayProbe, batch, fieldVars, parseVars, matchVars, location>>

\* PreviousN(from, n) up to its loop; Previous(from) is PreviousN(from, 1)
PreviousN ==
    /\ pc = "ready"
    /\ \E from \in FromTimes, n \in 1..MaxN :
          \E minTime \in AddDate(location, TruncateSecond([from EXCEPT !.sec = @ - 1]),
                                 0 - DefaultSearchYears, 0, 0) :
              call' = [op |-> "prev", from |-> from, arg |-> n,
                       n |-> IF n < 1 THEN 1 ELSE n,
                       t |-> TruncateSecond([from EXCEPT !.sec = @ - 1]),
                       limit |-> minTime, iterations |-> 0]
    /\ pc' = "previousN"
    /\ UNCHANGED <<ast, threads, dayProbe, batch, fieldVars, parseVars, matchVars, location, result>>

\* one test of the loop of PreviousN
PreviousNLoop ==
    /\ pc = "previousN"
    /\ IF call.t > call.limit /\ call.iterations < DefaultMaxIterations * 60
       THEN /\ call' = [call EXCEPT !.iterations = @ + 1]
            /\ pc' = "findPrev"
            /\ UNCHANGED result
       ELSE /\ result' = [time |-> ZeroTime, err |-> <<ErrNoPreviousRun>>]
            /\ pc' = "done"
            /\ UNCHANGED call
    /\ UNCHANGED <<ast, threads, dayProbe, batch, fieldVars, parseVars, matchVars, location>>

\* one iteration of the loop of findPrevMatch; when all fields match, the rest of the
\* iteration of PreviousN
FindPrevStep ==
    /\ pc = "findPrev"
    /\ LET step(failed) ==
               IF failed = "none"
               THEN IF call.n - 1 <= 0
                    THEN /\ call' = [call EXCEPT !.n = @ - 1]
                         /\ result' = [time |-> <<call.t>>, err |-> Nil]
                         /\ pc' = "done"
                    ELSE /\ call' = [call EXCEPT !.n = @ - 1, !.t = @ - 1]
                         /\ pc' = "previousN"
                         /\ UNCHANGED result
               ELSE /\ \E u \in backwardJump(parseRes.expr[1], location, call.t, failed) :
                          call' = [call EXCEPT !.t = u]
                    /\ pc' = "findPrev"
                    /\ UNCHANGED result
       IN  IF call.t > call.limit
           THEN step(failedCheck(parseRes.expr[1], Clock(location, call.t)))
           ELSE /\ result' = [time |-> ZeroTime, err |-> <<ErrNoPreviousRun>>]
                /\ pc' = "done"
                /\ UNCHANGED call
    /\ UNCHANGED <<ast, threads, dayProbe, batch, fieldVars, parseVars, matchVars, location>>

\* Scheduler.IsDue on the instant the call returned
IsDue ==
    /\ pc = "done"
    /\ result.err = Nil
    /\ LET due(a) ==
               /\ matchArgs' = a
               /\ matchRes' = Matches(parseRes.expr[1], a.second, a.minute, a.hour,
                                      a.day, a.month, a.weekday)
       IN  due(IsDueArgs(location, result.time[1]))
    /\ pc' = "checked"
    /\ UNCHANGED <<ast, threads, dayProbe, batch, fieldVars, parseVars, schedVars>>

NextSched ==
    \/ Parse
    \/ NewScheduler
    \/ NextN
    \/ NextNLoop
    \/ FindNextStep
    \/ PreviousN
    \/ PreviousNLoop
    \/ FindPrevStep
    \/ IsDue

SpecSched == InitSched /\ [][NextSched]_vars

\* the call was Next(from) or Previous(from) and returned an instant
Returned(op) ==
    /\ pc \in {"done", "checked"}
    /\ call.op = op
    /\ call.arg = 1
    /\ result.err = Nil

\* C1: the instant a successful Next or Previous returned, read in the scheduler's
\* location, satisfies Expression.Matches (IsDue is true), also for expressions with
\* special day tokens.
C1_ResultIsDue == pc = "checked" => matchRes = TRUE

\* C2: a successful Next(t) returns an instant strictly later than t and a successful
\* Previous(t) one strictly earlier than t, whether or not t has a fraction of a
\* second.
C2_StrictlyAfterBefore ==
    /\ Returned("next") =>
          \/ result.time[1] > call.from.sec
          \/ result.time[1] = call.from.sec /\ 0 > call.from.nsec
    /\ Returned("prev") =>
          \/ result.time[1] < call.from.sec
          \/ result.time[1] = call.from.sec /\ 0 < call.from.nsec

\* some whole second of lo..hi, read in UTC, passes the month, day, hour, minute and
\* second checks of the search
MatchWithin(e, lo, hi) ==
    \E d \in (lo \div SecondsPerDay) .. (hi \div SecondsPerDay) :
        LET inDay(c) ==
                /\ Contains(e.Month, c.month)
                /\ matchesDay(e, c)
                /\ \E h \in 0..23 :
                      /\ Contains(e.Hour, h)
                      /\ Instant(c.year, c.month, c.day, h, 59, 59) >= lo
                      /\ Instant(c.year, c.month, c.day, h, 0, 0) <= hi
                      /\ \E m \in 0..59 :
                            /\ Contains(e.Minute, m)
                            /\ Instant(c.year, c.month, c.day, h, m, 59) >= lo
                            /\ Instant(c.year, c.month, c.day, h, m, 0) <= hi
                            /\ \E x \in 0..59 :
                                  /\ Contains(e.Second, x)
                                  /\ Instant(c.year, c.month, c.day, h, m, x) >= lo
                                  /\ Instant(c.year, c.month, c.day, h, m, x) <= hi
        IN  inDay(Clock(UTC, d * SecondsPerDay))

\* C3: with the scheduler in UTC, no whole second strictly between from and the
\* instant Next(from) returned passes the month, day, hour, minute and second checks,
\* and the returned instant passes them.
C3_NextIsFirstMatch ==
    (Returned("next") /\ location = UTC) =>
        /\ failedCheck(parseRes.expr[1], Clock(UTC, result.time[1])) = "none"
        /\ ~MatchWithin(parseRes.expr[1], call.from.sec + 1, result.time[1] - 1)

\* "0 0 1 * *" from 2024-01-15T12:00:00Z gives 2024-02-01T00:00:00Z
C3_Witness ==
    /\ Returned("next")
    /\ location = UTC
    /\ raw = "0 0 1 * *"
    /\ call.from = [sec |-> Instant(2024, 1, 15, 12, 0, 0), nsec |-> 0]
    /\ result.time = <<Instant(2024, 2, 1, 0, 0, 0)>>

\* C4: with the scheduler in UTC and from on a whole second, no whole second strictly
\* between the instant Previous(from) returned and from passes the month, day, hour,
\* minute and second checks, and the returned instant passes them.
C4_PreviousIsLatestMatch ==
    (Returned("prev") /\ location = UTC /\ call.from.nsec = 0) =>
        /\ failedCheck(parseRes.expr[1], Clock(UTC, result.time[1])) = "none"
        /\ ~MatchWithin(parseRes.expr[1], result.time[1] + 1, call.from.sec - 1)

\* "0 9 * * 1-5" before 2024-01-15T12:00:00Z gives 2024-01-15T09:00:00Z
C4_Witness ==
    /\ Returned("prev")
    /\ location = UTC
    /\ raw = "0 9 * * 1-5"
    /\ call.from = [sec |-> Instant(2024, 1, 15, 12, 0, 0), nsec |-> 0]
    /\ result.time = <<Instant(2024, 1, 15, 9, 0, 0)>>

\* C9: an expression of 5 tokens parses with type Standard and the second field {0},
\* one of 6 tokens with type Extended and its first token as the second field; every
\* instant NextN or PreviousN returns for an expression of 5 tokens has second 0 in
\* the scheduler's location.
C9_StandardSecondZero ==
    (pc # "start" /\ ast.kind = "tokens" /\ parseRes.expr # Nil) =>
        /\ Len(ast.toks) = 5 =>
              /\ parseRes.expr[1].Type = StandardCron
              /\ parseRes.expr[1].Second.Values = {0}
              /\ parseRes.expr[1].Minute = FieldParserParse(FieldMinute, ast.toks[1]).field[1]
              /\ (pc \in {"done", "checked"} /\ result.err = Nil) =>
                    Clock(location, result.time[1]).second = 0
        /\ Len(ast.toks) = 6 =>
              /\ parseRes.expr[1].Type = ExtendedCron
              /\ parseRes.expr[1].Second = FieldParserParse(FieldSecond, ast.toks[1]).field[1]
              /\ parseRes.expr[1].Minute = FieldParserParse(FieldMinute, ast.toks[2]).field[1]
        /\ StandardCron # ExtendedCron

\* "0 9 * * 1-5" in New York after 2024-01-01T08:00:00Z: 09:00:00 EST
C9_Witness ==
    /\ Returned("next")
    /\ location = NewYork
    /\ raw = "0 9 * * 1-5"
    /\ parseRes.expr[1].Type = StandardCron
    /\ parseRes.expr[1].Second.Values = {0}
    /\ call.from = [sec |-> Instant(2024, 1, 1, 8, 0, 0), nsec |-> 0]
    /\ result.time = <<Instant(2024, 1, 1, 14, 0, 0)>>


(***************************************************************************)
(* SpecBatch: Parse, NewScheduler, then one NextNTimes or PreviousNTimes   *)
(* call; each Next / Previous call it makes runs as in SpecSched.          *)
(***************************************************************************)
MaxBatch == 2

BatchFromTimes ==
    { [sec |-> Instant(2024, 2, 1, 0, 0, 0), nsec |-> 0],
      [sec |-> Instant(2024, 6, 14, 9, 0, 0), nsec |-> 500000000],
      [sec |-> Instant(2024, 11, 3, 6, 30, 30), nsec |-> 0] }

\* "0 0 * 2 4#5" matches 2024-02-29 only, "0 0 30 2 *" never
BatchExprs ==
    { <<"0", "9", "*", "*", "1-5">>, <<"*/15", "*", "*", "*", "*">>,
      <<"59", "30,40", "*", "*", "*", "*">>, <<"0", "0", "L", "*", "*">>,
      <<"0", "0", "*", "2", "4#5">>, <<"0", "0", "30", "2", "*">> }

BatchAsts ==
    { [kind |-> "tokens", name |-> "", style |-> "", toks |-> x,
       lead |-> "", sep |-> " ", trail |-> ""] : x \in BatchExprs }

InitBatch ==
    /\ pc = "start"
    /\ ast \in BatchAsts
    /\ raw = RenderRaw(ast)
    /\ seconds = FALSE
    /\ parseRes = NoParse
    /\ fieldType = FieldSecond /\ token = "" /\ fieldRes = [field |-> Nil, err |-> Nil]
    /\ matchArgs = NoArgs /\ matchRes = FALSE
    /\ location = UTC /\ call = NoCall /\ result = NoResult
    /\ batch = NoBatch
    /\ threads = NoThreads
    /\ dayProbe = NoProbe

\* NextNTimes(from, n) up to its loop
NextNTimes ==
    /\ pc = "ready"
    /\ \E from \in BatchFromTimes, n \in 0..MaxBatch :
          IF n <= 0
          THEN /\ batch' = [NoBatch EXCEPT !.op = "next", !.from = from, !.n = n]
               /\ pc' = "batchDone"
          ELSE /\ batch' = [NoBatch EXCEPT !.op = "next", !.from = from, !.n = n, !.t = from]
               /\ pc' = "nextNTimes"
    /\ UNCHANGED <<ast, threads, dayProbe, fieldVars, parseVars, matchVars, schedVars>>

\* the loop test of NextNTimes and the call s.Next(t), up to the loop of NextN
NextNTimesLoop ==
    /\ pc = "nextNTimes"
    /\ IF batch.i < batch.n
       THEN /\ \E maxTime \in AddDate(location, TruncateSecond([batch.t EXCEPT !.sec = @ + 1]),
                                      DefaultSearchYears, 0, 0) :
                  call' = [op |-> "next", from |-> batch.t, arg |-> 1, n |-> 1,
                           t |-> TruncateSecond([batch.t EXCEPT !.sec = @ + 1]),
                           limit |-> maxTime, iterations |-> 0]
            /\ result' = NoResult
            /\ pc' = "nextN"
            /\ UNCHANGED batch
       ELSE /\ batch' = [batch EXCEPT !.ret = [results |-> <<batch.results>>, err |-> Nil]]
            /\ pc' = "batchDone"
            /\ UNCHANGED <<call, result>>
    /\ UNCHANGED <<ast, threads, dayProbe, fieldVars, parseVars, matchVars, location>>

\* the rest of an iteration of NextNTimes, after s.Next(t) returned
NextNTimesCollect ==
    /\ pc = "done"
    /\ batch.op = "next"
    /\ IF result.err # Nil
       THEN /\ batch' = [batch EXCEPT
                            !.calls = Append(@, [from |-> batch.t, res |-> result]),
                            !.ret = IF Len(batch.results) > 0
                                    THEN [results |-> <<batch.results>>, err |-> Nil]
                                    ELSE [results |-> Nil, err |-> result.err]]
            /\ pc' = "batchDone"
       ELSE /\ batch' = [batch EXCEPT
                            !.calls = Append(@, [from |-> batch.t, res |-> result]),
                            !.results = Append(@, result.time[1]),
                            !.t = [sec |-> result.time[1], nsec |-> 0],
                            !.i = @ + 1]
            /\ pc' = "nextNTimes"
    /\ UNCHANGED <<ast, threads, dayProbe, fieldVars, parseVars, matchVars, schedVars>>

\* PreviousNTimes(from, n) up to its loop
PreviousNTimes ==
    /\ pc = "ready"
    /\ \E from \in BatchFromTimes, n \in 0..MaxBatch :
          IF n <= 0
          THEN /\ batch' = [NoBatch EXCEPT !.op = "prev", !.from = from, !.n = n]
               /\ pc' = "batchDone"
          ELSE /\ batch' = [NoBatch EXCEPT !.op = "prev", !.from = from, !.n = n, !.t = from]
               /\ pc' = "previousNTimes"
    /\ UNCHANGED <<ast, threads, dayProbe, fieldVars, parseVars, matchVars, schedVars>>

\* the loop test of PreviousNTimes and the call s.Previous(t), up to the loop of
\* PreviousN
PreviousNTimesLoop ==
    /\ pc = "previousNTimes"
    /\ IF batch.i < batch.n
       THEN /\ \E minTime \in AddDate(location, TruncateSecond([batch.t EXCEPT !.sec = @ - 1]),
                                      0 - DefaultSearchYears, 0, 0) :
                  call' = [op |-> "prev", from |-> batch.t, arg |-> 1, n |-> 1,
                           t |-> TruncateSecond([batch.t EXCEPT !.sec = @ - 1]),
                           limit |-> minTime, iterations |-> 0]
            /\ result' = NoResult
            /\ pc' = "previousN"
            /\ UNCHANGED batch
       ELSE /\ batch' = [batch EXCEPT !.ret = [results |-> <<batch.results>>, err |-> Nil]]
            /\ pc' = "batchDone"
            /\ UNCHANGED <<call, result>>
    /\ UNCHANGED <<ast, threads, dayProbe, fieldVars, parseVars, matchVars, location>>

\* the rest of an iteration of PreviousNTimes, after s.Previous(t) returned
PreviousNTimesCollect ==
    /\ pc = "done"
    /\ batch.op = "prev"
    /\ IF result.err # Nil
       THEN /\ batch' = [batch EXCEPT
                            !.calls = Append(@, [from |-> batch.t, res |-> result]),
                            !.ret = IF Len(batch.results) > 0
                                    THEN [results |-> <<batch.results>>, err |-> Nil]
                                    ELSE [results |-> Nil, err |-> result.err]]
            /\ pc' = "batchDone"
       ELSE /\ batch' = [batch EXCEPT
                            !.calls = Append(@, [from |-> batch.t, res |-> result]),
                            !.results = Append(@, result.time[1]),
                            !.t = [sec |-> result.time[1], nsec |-> 0],
                            !.i = @ + 1]
            /\ pc' = "previousNTimes"
    /\ UNCHANGED <<ast, threads, dayProbe, fieldVars, parseVars, matchVars, schedVars>>

NextBatch ==
    \/ Parse
    \/ NewScheduler
    \/ NextNTimes
    \/ NextNTimesLoop
    \/ NextNLoop
    \/ FindNextStep
    \/ NextNTimesCollect
    \/ PreviousNTimes
    \/ PreviousNTimesLoop
    \/ PreviousNLoop
    \/ FindPrevStep
    \/ PreviousNTimesCollect

SpecBatch == InitBatch /\ [][NextBatch]_vars

\* C13: NextNTimes(from, n) with n >= 1 calls Next(from), then Next on each result in
\* turn, and returns the results in that order: strictly increasing (PreviousNTimes:
\* strictly decreasing), n of them when every call succeeds, the results so far with a
\* nil error when a later call fails, and nil with the error when the first call fails.
C13_BatchSequence ==
    (pc = "batchDone" /\ batch.n >= 1) =>
        LET calls == batch.calls
            ret == batch.ret
            succeeded == {i \in 1..Len(calls) : calls[i].res.err = Nil}
        IN  /\ Len(calls) >= 1
            /\ calls[1].from = batch.from
            /\ \A i \in 2..Len(calls) :
                  /\ calls[i - 1].res.err = Nil
                  /\ calls[i].from = [sec |-> calls[i - 1].res.time[1], nsec |-> 0]
            /\ IF calls[1].res.err # Nil
               THEN ret = [results |-> Nil, err |-> calls[1].res.err]
               ELSE /\ ret.err = Nil
                    /\ ret.results # Nil
                    /\ ret.results[1] = [i \in succeeded |-> calls[i].res.time[1]]
                    /\ succeeded = 1..Len(calls) => Len(ret.results[1]) = batch.n
                    /\ \A i \in 1..Len(ret.results[1]), j \in 1..Len(ret.results[1]) :
                          i < j => IF batch.op = "next"
                                   THEN ret.results[1][i] < ret.results[1][j]
                                   ELSE ret.results[1][i] > ret.results[1][j]


\* every jump the forward search can take from its cursor moves the cursor on, every
\* jump the backward search can take moves it back
JumpAdvances ==
    LET fwd(failed) ==
            failed # "none" =>
                \A u \in forwardJump(parseRes.expr[1], location, call.t, failed) : u > call.t
        bwd(failed) ==
            failed # "none" =>
                \A u \in backwardJump(parseRes.expr[1], location, call.t, failed) : u < call.t
    IN  /\ (pc = "findNext" /\ call.t < call.limit) =>
              fwd(failedCheck(parseRes.expr[1], Clock(location, call.t)))
        /\ (pc = "findPrev" /\ call.t > call.limit) =>
              bwd(failedCheck(parseRes.expr[1], Clock(location, call.t)))

\* a finished call returned either an instant and no error, or the zero instant and
\* its not-found error; a search for day 30 of February returned the error
NotFoundIsAnError ==
    pc = "done" =>
        /\ result.err = Nil => result.time # ZeroTime
        /\ result.err # Nil =>
              /\ result.time = ZeroTime
              /\ result.err = IF call.op = "next" THEN <<ErrNoNextRun>>
                              ELSE <<ErrNoPreviousRun>>
        /\ raw = "0 0 30 2 *" => result.err # Nil

\* C14: every Next and Previous call terminates: each jump of its search moves the
\* cursor strictly on (Previous: strictly back), and a search that finds nothing
\* within 5 years ends with ErrNoNextRun / ErrNoPreviousRun, never with a successful
\* zero instant.
C14_SearchTerminates == JumpAdvances /\ NotFoundIsAnError

(***************************************************************************)
(* SpecShared: goroutines calling Next, Previous, NextNTimes and IsDue on  *)
(* one Scheduler at the same time.  A call keeps its arguments and locals  *)
(* in its own frame; the Scheduler and its Expression are only read.  The  *)
(* goroutines are interleaved between the iterations of the search loops.  *)
(***************************************************************************)
SharedFromTimes ==
    { [sec |-> Instant(2024, 6, 14, 9, 0, 0), nsec |-> 500000000],
      [sec |-> Instant(2024, 6, 15, 10, 20, 30), nsec |-> 0] }

SharedExprs ==
    { <<"*", "*", "9", "*", "*", "1-5">>, <<"*/20", "*/30", "*", "*", "*", "*">> }

SharedAsts ==
    { [kind |-> "tokens", name |-> "", style |-> "", toks |-> x,
       lead |-> "", sep |-> " ", trail |-> ""] : x \in SharedExprs }

SharedOps == {"next", "prev", "nextNTimes", "isDue"}

InitShared ==
    /\ pc = "start"
    /\ ast \in SharedAsts
    /\ raw = RenderRaw(ast)
    /\ seconds = FALSE
    /\ parseRes = NoParse
    /\ fieldType = FieldSecond /\ token = "" /\ fieldRes = [field |-> Nil, err |-> Nil]
    /\ matchArgs = NoArgs /\ matchRes = FALSE
    /\ location = UTC /\ call = NoCall /\ result = NoResult
    /\ batch = NoBatch
    /\ threads = NoThreads
    /\ dayProbe = NoProbe

\* the frame th entering NextN(from, 1), up to its loop
EnterNextN(loc, th, from) ==
    LET enter(t) ==
            { [th EXCEPT !.pc = "nextN", !.result = NoResult,
                         !.call = [op |-> "next", from |-> from, arg |-> 1, n |-> 1,
                                   t |-> t, limit |-> maxTime, iterations |-> 0]]
              : maxTime \in AddDate(loc, t, DefaultSearchYears, 0, 0) }
    IN  enter(TruncateSecond([from EXCEPT !.sec = @ + 1]))

\* the frame th entering PreviousN(from, 1), up to its loop
EnterPreviousN(loc, th, from) ==
    LET enter(t) ==
            { [th EXCEPT !.pc = "previousN", !.result = NoResult,
                         !.call = [op |-> "prev", from |-> from, arg |-> 1, n |-> 1,
                                   t |-> t, limit |-> minTime, iterations |-> 0]]
              : minTime \in AddDate(loc, t, 0 - DefaultSearchYears, 0, 0) }
    IN  enter(TruncateSecond([from EXCEPT !.sec = @ - 1]))

\* the frames of a goroutine that calls op with the instant arg: Next(arg),
\* Previous(arg), NextNTimes(arg, MaxBatch) or IsDue(arg)
ThreadCall(loc, th, op, arg) ==
    CASE op = "next" -> EnterNextN(loc, [th EXCEPT !.op = op, !.arg = arg], arg)
      [] op = "prev" -> EnterPreviousN(loc, [th EXCEPT !.op = op, !.arg = arg], arg)
      [] op = "nextNTimes" ->
            { [th EXCEPT !.op = op, !.arg = arg, !.pc = "nextNTimes",
                         !.batch = [NoBatch EXCEPT !.op = "next", !.from = arg,
                                                   !.n = MaxBatch, !.t = arg]] }
      [] op = "isDue" -> { [th EXCEPT !.op = op, !.arg = arg, !.pc = "isDue"] }

\* the next step of the call in frame th on the Scheduler (e, loc): one loop test or
\* one loop iteration of NextN, findNextMatch, PreviousN, findPrevMatch or
\* NextNTimes, or the whole of IsDue
ThreadStep(e, loc, th) ==
    LET noRun(err) == [th EXCEPT !.result = [time |-> ZeroTime, err |-> <<err>>],
                                 !.pc = "done"]
        found == IF th.call.n - 1 <= 0
                 THEN [th EXCEPT !.call.n = @ - 1,
                                 !.result = [time |-> <<th.call.t>>, err |-> Nil],
                                 !.pc = "done"]
                 ELSE [th EXCEPT !.call.n = @ - 1,
                                 !.call.t = IF th.call.op = "next" THEN @ + 1 ELSE @ - 1,
                                 !.pc = IF th.call.op = "next" THEN "nextN" ELSE "previousN"]
        fwd(failed) ==
            IF failed = "none" THEN {found}
            ELSE { [th EXCEPT !.call.t = u] : u \in forwardJump(e, loc, th.call.t, failed) }
        bwd(failed) ==
            IF failed = "none" THEN {found}
            ELSE { [th EXCEPT !.call.t = u] : u \in backwardJump(e, loc, th.call.t, failed) }
        due(a) == Matches(e, a.second, a.minute, a.hour, a.day, a.month, a.weekday)
    IN  CASE th.pc = "nextN" ->
                IF th.call.t < th.call.limit /\ th.call.iterations < DefaultMaxIterations * 60
                THEN { IF u > th.call.limit
                       THEN [noRun(ErrNoNextRun) EXCEPT !.call.iterations = @ + 1]
                       ELSE [th EXCEPT !.call.iterations = @ + 1, !.call.t = u,
                                       !.pc = "findNext"]
                       : u \in alignToNextMonth(e, loc, th.call.t) }
                ELSE {noRun(ErrNoNextRun)}
          [] th.pc = "findNext" ->
                IF th.call.t < th.call.limit
                THEN fwd(failedCheck(e, Clock(loc, th.call.t)))
                ELSE {noRun(ErrNoNextRun)}
          [] th.pc = "previousN" ->
                IF th.call.t > th.call.limit /\ th.call.iterations < DefaultMaxIterations * 60
                THEN {[th EXCEPT !.call.iterations = @ + 1, !.pc = "findPrev"]}
                ELSE {noRun(ErrNoPreviousRun)}
          [] th.pc = "findPrev" ->
                IF th.call.t > th.call.limit
                THEN bwd(failedCheck(e, Clock(loc, th.call.t)))
                ELSE {noRun(ErrNoPreviousRun)}
          [] th.pc = "nextNTimes" ->
                IF th.batch.i < th.batch.n
                THEN EnterNextN(loc, th, th.batch.t)
                ELSE {[th EXCEPT !.batch.ret = [results |-> <<th.batch.results>>, err |-> Nil],
                                 !.pc = "returned"]}
          [] th.pc = "done" /\ th.op = "nextNTimes" ->
                IF th.result.err # Nil
                THEN {[th EXCEPT !.batch.ret =
                                     IF Len(th.batch.results) > 0
                                     THEN [results |-> <<th.batch.results>>, err |-> Nil]
                                     ELSE [results |-> Nil, err |-> th.result.err],
                                 !.pc = "returned"]}
                ELSE {[th EXCEPT !.batch.results = Append(@, th.result.time[1]),
                                 !.batch.t = [sec |-> th.result.time[1], nsec |-> 0],
                                 !.batch.i = @ + 1,
                                 !.pc = "nextNTimes"]}
          [] th.pc = "done" /\ th.op # "nextNTimes" -> {[th EXCEPT !.pc = "returned"]}
          [] th.pc = "isDue" ->
                {[th EXCEPT !.due = due(IsDueArgs(loc, th.arg.sec)), !.pc = "returned"]}
          [] OTHER -> {}

\* whether a goroutine other than g is inside a call
OthersRunning(g) == \E h \in Threads \ {g} : threads[h].pc \notin {"idle", "returned"}

\* goroutine g calls a method of the shared Scheduler
Go(g) ==
    /\ pc = "ready"
    /\ threads[g].pc = "idle"
    /\ \E op \in SharedOps, arg \in SharedFromTimes :
          \E f \in ThreadCall(location, threads[g], op, arg) :
              threads' = [threads EXCEPT ![g] = f]
    /\ UNCHANGED <<pc, ast, dayProbe, fieldVars, parseVars, matchVars, schedVars, batch>>

\* a search that kept its cursor in the Scheduler: the step of g moves the cursor of
\* every call in progress
RunSharedCursor(g) ==
    /\ pc = "ready"
    /\ \E f \in ThreadStep(parseRes.expr[1], location, threads[g]) :
          threads' = [h \in Threads |->
                         IF h = g THEN [f EXCEPT !.overlap = @ \/ OthersRunning(g)]
                         ELSE IF threads[h].pc \in {"findNext", "findPrev"}
                              THEN [threads[h] EXCEPT !.call.t = f.call.t]
                              ELSE threads[h]]
    /\ UNCHANGED <<pc, ast, dayProbe, fieldVars, parseVars, matchVars, schedVars, batch>>

\* goroutine g takes the next step of its call
Run(g) ==
    /\ pc = "ready"
    /\ \E f \in ThreadStep(parseRes.expr[1], location, threads[g]) :
          threads' = [threads EXCEPT ![g] = [f EXCEPT !.overlap = @ \/ OthersRunning(g)]]
    /\ UNCHANGED <<pc, ast, dayProbe, fieldVars, parseVars, matchVars, schedVars, batch>>

NextShared ==
    \/ Parse
    \/ NewScheduler
    \/ \E g \in Threads : Go(g)
    \/ \E g \in Threads : Run(g)

SpecShared == InitShared /\ [][NextShared]_vars

\* what the call in frame th returned
Ret(th) == [op |-> th.op, time |-> th.result.time, err |-> th.result.err,
            results |-> th.batch.ret.results, batchErr |-> th.batch.ret.err,
            due |-> th.due]

RECURSIVE SoloRun(_, _, _)
\* what the call in frame th can return when no other goroutine runs
SoloRun(e, loc, th) ==
    IF th.pc = "returned" THEN {Ret(th)}
    ELSE UNION { SoloRun(e, loc, f) : f \in ThreadStep(e, loc, th) }

\* what the call op(arg) can return on the Scheduler (e, loc) when it runs alone
Alone(e, loc, op, arg) ==
    UNION { SoloRun(e, loc, f) : f \in ThreadCall(loc, NoThread, op, arg) }

AllReturned == \A g \in Threads : threads[g].pc = "returned"

\* each call returned what it returns when it runs alone
SameAsAlone ==
    AllReturned =>
        \A g \in Threads :
            Ret(threads[g]) \in Alone(parseRes.expr[1], location, threads[g].op, threads[g].arg)

\* a step of a call leaves the Scheduler, its Expression and the frames of the other
\* goroutines as they were
ChangesNothing ==
    pc = "ready" =>
        /\ parseRes' = parseRes /\ location' = location
        /\ \A g \in Threads :
              threads'[g] # threads[g] => \A h \in Threads \ {g} : threads'[h] = threads[h]

\* C15: calls of Next, Previous, NextNTimes and IsDue made at the same time on one
\* Scheduler and its Expression each return what they return when run alone, and
\* change neither the Scheduler nor the Expression.
C15_SharedUseIsSafe == []SameAsAlone /\ [][ChangesNothing]_vars

\* both goroutines returned from calls that ran while the other was inside its call:
\* a NextNTimes with two results and a Previous
C15_Witness ==
    /\ AllReturned
    /\ threads["g1"].overlap /\ threads["g2"].overlap
    /\ threads["g1"].op = "nextNTimes" /\ threads["g1"].batch.ret.results # Nil
    /\ Len(threads["g1"].batch.ret.results[1]) = MaxBatch
    /\ threads["g2"].op = "prev" /\ threads["g2"].result.err = Nil

(***************************************************************************)
(* SpecDay: the day check of the search, Scheduler.matchesDay, on every    *)
(* day of two years for expressions with an L, LW, L-N or W#K token, and   *)
(* Next for some of them.                                                  *)
(***************************************************************************)
ProbeYears == {2023, 2024}

\* the token L-N
LastMinus(n) == "L-" \o Itoa(n)

\* the token W#K
NthOf(w, k) == Itoa(w) \o "#" \o Itoa(k)

\* the token NW
NearestTo(n) == Itoa(n) \o "W"

\* the token WL
LastOf(w) == Itoa(w) \o "L"

\* day-of-month and day-of-week tokens that mix L with ordinary values
MixedDayExprs ==
    { <<"0", "0", "15,L", "*", "*">>, <<"0", "0", "L", "*", "1">>,
      <<"0", "0", "1-30,L", "*", "1">>, <<"0", "0", "1-31,L", "*", "1">> }

DayExprs ==
    { <<"0", "0", "L", "*", "*">>, <<"0", "0", "LW", "*", "*">> }
        \cup { <<"0", "0", LastMinus(n), "*", "*">> : n \in 1..30 }
        \cup { <<"0", "0", "*", "*", NthOf(w, k)>> : w \in 0..6, k \in 1..5 }
        \cup { <<"0", "0", NearestTo(n), "*", "*">> : n \in 1..31 }
        \cup { <<"0", "0", "*", "*", LastOf(w)>> : w \in 0..6 }
        \cup MixedDayExprs

DayAsts ==
    { [kind |-> "tokens", name |-> "", style |-> "", toks |-> x,
       lead |-> "", sep |-> " ", trail |-> ""] : x \in DayExprs }

\* the expressions Next is called on
DaySearchExprs ==
    { <<"0", "0", "L", "*", "*">>, <<"0", "0", "LW", "*", "*">>,
      <<"0", "0", LastMinus(3), "*", "*">>, <<"0", "0", "*", "*", NthOf(1, 3)>> }
        \cup { <<"0", "0", "*", "*", NthOf(w, 5)>> : w \in 0..6 }

\* 2024-02-01T00:00:00Z: of the weekdays only Thursday falls five times in February
\* 2024
DayFromTimes ==
    { [sec |-> Instant(2024, 2, 1, 0, 0, 0), nsec |-> 0],
      [sec |-> Instant(2024, 6, 14, 9, 0, 0), nsec |-> 500000000] }

InitDay ==
    /\ pc = "start"
    /\ ast \in DayAsts
    /\ raw = RenderRaw(ast)
    /\ seconds = FALSE
    /\ parseRes = NoParse
    /\ fieldType = FieldSecond /\ token = "" /\ fieldRes = [field |-> Nil, err |-> Nil]
    /\ matchArgs = NoArgs /\ matchRes = FALSE
    /\ location = UTC /\ call = NoCall /\ result = NoResult
    /\ batch = NoBatch
    /\ threads = NoThreads
    /\ dayProbe = NoProbe

\* s.matchesDay(t) as the search calls it, for t the midnight of a day
MatchesDay ==
    /\ pc = "ready"
    /\ \E y \in ProbeYears, m \in 1..12, d \in 1..31 :
          /\ d <= lastDayOfMonth(y, m)
          /\ \E t \in Date(location, y, m, d, 0, 0, 0) :
                dayProbe' = [t |-> t, res |-> matchesDay(parseRes.expr[1], Clock(location, t))]
    /\ pc' = "dayChecked"
    /\ UNCHANGED <<ast, threads, batch, fieldVars, parseVars, matchVars, schedVars>>

\* Next(from), which is NextN(from, 1), up to the loop of NextN
Next ==
    /\ pc = "ready"
    /\ ast.toks \in DaySearchExprs
    /\ \E from \in DayFromTimes :
          \E maxTime \in AddDate(location, TruncateSecond([from EXCEPT !.sec = @ + 1]),
                                 DefaultSearchYears, 0, 0) :
              call' = [op |-> "next", from |-> from, arg |-> 1, n |-> 1,
                       t |-> TruncateSecond([from EXCEPT !.sec = @ + 1]),
                       limit |-> maxTime, iterations |-> 0]
    /\ pc' = "nextN"
    /\ UNCHANGED <<ast, threads, dayProbe, batch, fieldVars, parseVars, matchVars, location, result>>

NextDay ==
    \/ Parse
    \/ NewScheduler
    \/ MatchesDay
    \/ Next
    \/ NextNLoop
    \/ FindNextStep

SpecDay == InitDay /\ [][NextDay]_vars

\* the number of days of a month
DaysIn(y, m) ==
    IF m \in {4, 6, 9, 11} THEN 30 ELSE IF m # 2 THEN 31 ELSE IF IsLeap(y) THEN 29 ELSE 28

\* the day handed to matchesDay, as the scheduler's location reads it
Probed == Clock(location, dayProbe.t)

\* matchesDay was called on an expression with the tokens toks
ProbedOn(toks) == pc = "dayChecked" /\ ast.toks = toks

\* Next(from) returned, on an expression with the tokens toks
NextReturned(toks, from) ==
    pc = "done" /\ ast.toks = toks /\ call.op = "next" /\ call.from = from

\* C20: for "0 0 L * *" the search accepts exactly the last calendar day of each
\* month (28, 29, 30 or 31), and Next(2024-02-01T00:00:00Z) is 2024-02-29T00:00:00Z.
C20_LastDayOfMonth ==
    /\ ProbedOn(<<"0", "0", "L", "*", "*">>) =>
          (dayProbe.res <=> Probed.day = DaysIn(Probed.year, Probed.month))
    /\ (NextReturned(<<"0", "0", "L", "*", "*">>,
                     [sec |-> Instant(2024, 2, 1, 0, 0, 0), nsec |-> 0]) /\ location = UTC) =>
          result = [time |-> <<Instant(2024, 2, 29, 0, 0, 0)>>, err |-> Nil]

\* Next(2024-02-01T00:00:00Z) on "0 0 L * *" returned the 29th of February
C20_Witness ==
    /\ NextReturned(<<"0", "0", "L", "*", "*">>,
                    [sec |-> Instant(2024, 2, 1, 0, 0, 0), nsec |-> 0])
    /\ location = UTC
    /\ result.time = <<Instant(2024, 2, 29, 0, 0, 0)>>

\* the weekday (0 = Sunday) of a calendar day
WeekdayOf(y, m, d) == WeekdayOfDays(DaysFromCivil(y, m, d))

\* the last day of a month that is not a Saturday or a Sunday
LastWorkday(y, m) ==
    CHOOSE d \in 1..DaysIn(y, m) :
        /\ WeekdayOf(y, m, d) \in 1..5
        /\ \A x \in (d + 1)..DaysIn(y, m) : WeekdayOf(y, m, x) \in {0, 6}

\* C16: for "0 0 LW * *" the search accepts exactly one day of each month, the last
\* weekday (Monday to Friday) of the month, and no other day.
C16_LastWeekdayOnly ==
    ProbedOn(<<"0", "0", "LW", "*", "*">>) =>
        (dayProbe.res <=> Probed.day = LastWorkday(Probed.year, Probed.month))

\* C17: for every N in 1..30 a day-of-month token L-N matches exactly the day (last
\* day of month - N) of each month where that day is >= 1, and Next for
\* "0 0 L-3 * *" succeeds with the midnight of the day three days before the end of
\* the month.
C17_DaysBeforeEnd ==
    /\ \A n \in 1..30 :
          ProbedOn(<<"0", "0", LastMinus(n), "*", "*">>) =>
              (dayProbe.res <=> /\ DaysIn(Probed.year, Probed.month) - n >= 1
                                /\ Probed.day = DaysIn(Probed.year, Probed.month) - n)
    /\ (pc = "done" /\ ast.toks = <<"0", "0", LastMinus(3), "*", "*">> /\ call.op = "next") =>
          /\ result.err = Nil
          /\ result.time # ZeroTime
          /\ LET at(c) == /\ c.day = DaysIn(c.year, c.month) - 3
                          /\ c.hour = 0 /\ c.minute = 0 /\ c.second = 0
             IN  at(Clock(location, result.time[1]))

\* C18: for every W in 0..6 and K in 1..5 a day-of-week token W#K matches exactly the
\* K-th occurrence of weekday W in each month that has one, and no other day; for
\* "0 0 * * 1#3" the only matching day of March 2024 is the 18th.
C18_NthWeekday ==
    /\ \A w \in 0..6, k \in 1..5 :
          ProbedOn(<<"0", "0", "*", "*", NthOf(w, k)>>) =>
              (dayProbe.res <=> /\ Probed.weekday = w
                                /\ Probed.day > (k - 1) * 7 /\ Probed.day <= k * 7)
    /\ (ProbedOn(<<"0", "0", "*", "*", "1#3">>) /\ Probed.year = 2024 /\ Probed.month = 3) =>
          (dayProbe.res <=> Probed.day = 18)

\* whether weekday w falls five times in a month
HasFifth(y, m, w) == \E d \in 29..DaysIn(y, m) : WeekdayOf(y, m, d) = w

\* the instant is the midnight of the first fifth occurrence of weekday w after from
FirstFifthAfter(loc, u, from, w) ==
    LET at(c) ==
            /\ c.weekday = w /\ c.day >= 29
            /\ c.hour = 0 /\ c.minute = 0 /\ c.second = 0
        none(a, b) ==
            \A y \in Years, m \in 1..12 :
                (HasFifth(y, m, w) /\ (y > a.year \/ (y = a.year /\ m >= a.month))
                    /\ (y < b.year \/ (y = b.year /\ m < b.month))) =>
                    \E d \in 29..DaysIn(y, m) :
                        /\ WeekdayOf(y, m, d) = w
                        /\ y = a.year /\ m = a.month /\ d <= a.day
    IN  /\ u > from.sec
        /\ at(Clock(loc, u))
        /\ none(Clock(loc, from.sec), Clock(loc, u))

\* C19: for a W#5 token and a month with only four occurrences of weekday W,
\* nthWeekdayOfMonth reports no occurrence, no day of that month matches, and Next
\* does not fail but returns the fifth occurrence in the first later month that has
\* one.
C19_FifthAbsent ==
    \A w \in 0..6 :
        /\ (ProbedOn(<<"0", "0", "*", "*", NthOf(w, 5)>>)
                /\ ~HasFifth(Probed.year, Probed.month, w)) =>
              /\ nthWeekdayOfMonth(Probed.year, Probed.month, w, 5) = 0
              /\ ~dayProbe.res
        /\ (pc = "done" /\ ast.toks = <<"0", "0", "*", "*", NthOf(w, 5)>> /\ call.op = "next") =>
              /\ result.err = Nil
              /\ result.time # ZeroTime
              /\ FirstFifthAfter(location, result.time[1], call.from, w)

\* C21: Field.IsAll is true exactly when the set of the field contains every value
\* of its natural domain, extension codes not counted: the day-of-week field
\* 0L,1L,2L,3L,4L,5L,6L and the day-of-month field 1-30,L are not "all", the
\* day-of-month field 1-31,L is.
C21_IsAllNaturalDomain ==
    (pc = "done" /\ fieldRes.field # Nil) =>
        (IsAll(fieldRes.field[1]) <=> NaturalAll(fieldRes.field[1]))

(***************************************************************************)
(* SpecWild: one call of FieldParser.Parse on a token with a wildcard      *)
(* part, alone or in a list.                                               *)
(***************************************************************************)
WildParts == [k : {"wild"}, a : {0}, b : {0}, n : {0}, style : {"*", "?"}]

WildAsts(ft) ==
    {<<w>> : w \in WildParts}
    \cup {<<w, p>> : w \in WildParts, p \in ListParts(ft) \cup WildParts}
    \cup {<<p, w>> : w \in WildParts, p \in ListParts(ft)}

InitWild ==
    /\ pc = "start"
    /\ fieldType \in FieldTypes
    /\ ast \in WildAsts(fieldType)
    /\ token = Render(fieldType, ast)
    /\ fieldRes = [field |-> Nil, err |-> Nil]
    /\ raw = "" /\ seconds = FALSE /\ parseRes = NoParse
    /\ matchArgs = NoArgs /\ matchRes = FALSE
    /\ location = UTC /\ call = NoCall /\ result = NoResult
    /\ batch = NoBatch
    /\ threads = NoThreads
    /\ dayProbe = NoProbe

SpecWild == InitWild /\ [][NextField]_vars

\* C22: a part * or ? that is one of several comma-separated parts of a token (as
\* in "5,*" or "?,10") parses and fills the full natural domain of the field, as a
\* token that is * or ? alone does.
C22_WildcardPart ==
    (pc = "done" /\ AllValid(fieldType, ast)) =>
        /\ fieldRes.err = Nil
        /\ fieldRes.field # Nil
        /\ \A v \in fieldBounds[fieldType].min .. fieldBounds[fieldType].max :
              Contains(fieldRes.field[1], v)

\* the comma-separated parts of a token, in upper case; the day-of-month and the
\* day-of-week token of an expression given as 5 or 6 tokens
PartsOf(tok) ==
    LET set(ps) == {ps[i] : i \in 1..Len(ps)} \ {""}
    IN  set(Split(ToUpper(tok), ","))

DayOfMonthParts(toks) == PartsOf(toks[Len(toks) - 2])

DayOfWeekParts(toks) == PartsOf(toks[Len(toks)])

\* the flags the special day tokens of the expression call for
TokenFlags(toks) ==
    LET dom(ps) ==
            [L   |-> "L" \in ps,
             LW  |-> "LW" \in ps,
             NW  |-> \E p \in ps : HasSuffix(p, "W") /\ p # "LW",
             LmN |-> \E p \in ps : HasPrefix(p, "L-")]
        dow(ps) ==
            [WL  |-> \E p \in ps : HasSuffix(p, "L"),
             Nth |-> \E p \in ps : StrContains(p, "#")]
        both(a, b) ==
            [HasLastDayOfMonth |-> a.L, HasLastWeekday |-> a.LW, HasNearestWeekday |-> a.NW,
             HasLastDayOfWeek |-> b.WL, HasNthDayOfWeek |-> b.Nth,
             special |-> a.L \/ a.LW \/ a.NW \/ a.LmN \/ b.WL \/ b.Nth]
    IN  both(dom(DayOfMonthParts(toks)), dow(DayOfWeekParts(toks)))

\* the flags of a parsed Expression
ExprFlags(e) ==
    [HasLastDayOfMonth |-> e.HasLastDayOfMonth, HasLastWeekday |-> e.HasLastWeekday,
     HasNearestWeekday |-> e.HasNearestWeekday, HasLastDayOfWeek |-> e.HasLastDayOfWeek,
     HasNthDayOfWeek |-> e.HasNthDayOfWeek, special |-> HasSpecialDayHandling(e)]

\* C23: after every successful parse HasLastDayOfMonth holds iff day-of-month has an
\* L token, HasLastWeekday iff an LW token, HasNearestWeekday iff some NW token,
\* HasLastDayOfWeek iff day-of-week has some WL token, HasNthDayOfWeek iff some W#K
\* token (any W in 0..6), and HasSpecialDayHandling() iff at least one special day
\* token, L-N included, is present.
C23_FlagsReflectTokens ==
    (pc = "parsed" /\ parseRes.expr # Nil /\ ast.kind = "tokens") =>
        ExprFlags(parseRes.expr[1]) = TokenFlags(ast.toks)

\* the day the token NW stands for in a month: N clamped to the last day, moved off
\* a Saturday or Sunday without leaving the month
NearestWorkday(y, m, n) ==
    LET move(last, d) ==
            IF WeekdayOf(y, m, d) = 6 THEN (IF d > 1 THEN d - 1 ELSE d + 2)
            ELSE IF WeekdayOf(y, m, d) = 0 THEN (IF d < last THEN d + 1 ELSE d - 2)
            ELSE d
    IN  move(DaysIn(y, m), IF n > DaysIn(y, m) THEN DaysIn(y, m) ELSE n)

\* C24: for every NW token (N in 1..31), year and month, nearestWeekday clamps N to
\* the last day of the month and returns N-1 for a Saturday with N > 1, N+2 for a
\* Saturday with N = 1, N+1 for a Sunday before the last day, N-2 for a Sunday on
\* the last day, otherwise N; the day returned is a Monday-to-Friday day of the same
\* month, and it is the only day the scheduler accepts for the token.
C24_NearestWeekday ==
    \A n \in 1..31 :
        ProbedOn(<<"0", "0", NearestTo(n), "*", "*">>) =>
            /\ nearestWeekday(Probed.year, Probed.month, n)
                  = NearestWorkday(Probed.year, Probed.month, n)
            /\ nearestWeekday(Probed.year, Probed.month, n) \in 1..DaysIn(Probed.year, Probed.month)
            /\ WeekdayOf(Probed.year, Probed.month,
                         nearestWeekday(Probed.year, Probed.month, n)) \in 1..5
            /\ dayProbe.res <=> Probed.day = NearestWorkday(Probed.year, Probed.month, n)

\* the first of June 2024 is a Saturday: "0 0 1W * *" is accepted on Monday the 3rd
C24_Witness ==
    /\ ProbedOn(<<"0", "0", "1W", "*", "*">>)
    /\ Probed.year = 2024 /\ Probed.month = 6 /\ Probed.day = 3
    /\ dayProbe.res

\* C25: for every weekday W in 0..6 a day-of-week token WL (day-of-month *) is
\* matched on exactly one day per month, the last occurrence of weekday W, which
\* lies within the last seven days of the month: the day number equals that
\* occurrence and the weekday equals W ("0 0 * * 5L" fires only on the last Friday).
C25_LastWeekdayOccurrence ==
    \A w \in 0..6 :
        ProbedOn(<<"0", "0", "*", "*", LastOf(w)>>) =>
            /\ lastWeekdayOccurrence(Probed.year, Probed.month, w)
                  \in (DaysIn(Probed.year, Probed.month) - 6)..DaysIn(Probed.year, Probed.month)
            /\ WeekdayOf(Probed.year, Probed.month,
                         lastWeekdayOccurrence(Probed.year, Probed.month, w)) = w
            /\ dayProbe.res <=> /\ Probed.weekday = w
                                /\ Probed.day > DaysIn(Probed.year, Probed.month) - 7

\* "0 0 * * 5L" is accepted on the last Friday of May 2024, the last day of the month
C25_Witness ==
    /\ ProbedOn(<<"0", "0", "*", "*", "5L">>)
    /\ Probed.year = 2024 /\ Probed.month = 5 /\ Probed.day = 31 /\ Probed.weekday = 5
    /\ dayProbe.res

\* the values the set of a field may hold: its natural bounds and, for the two day
\* fields, the documented extension codes
DocumentedValues(ft) ==
    CASE ft = FieldSecond -> 0..59
      [] ft = FieldMinute -> 0..59
      [] ft = FieldHour -> 0..23
      [] ft = FieldMonth -> 1..12
      [] ft = FieldDayOfMonth -> (1..31) \cup (32..62) \cup (101..131)
      [] ft = FieldDayOfWeek ->
            (0..6) \cup (10..16) \cup {20 + w * 10 + k : w \in 0..6, k \in 1..5}

\* the six fields of an Expression
FieldsOf(e) == {e.Second, e.Minute, e.Hour, e.DayOfMonth, e.Month, e.DayOfWeek}

\* C26: after every successful parse the second, minute, hour and month sets are
\* non-empty and inside the natural bounds of the field (0-59, 0-59, 0-23, 1-12), the
\* day-of-month set holds only values in 1..31 or the codes 32..62 and 101..131, the
\* day-of-week set only values in 0..6 or the codes 10..16 and 20+W*10+K; an
\* out-of-bounds number never enters a set.
C26_SetsWithinBounds ==
    (pc = "parsed" /\ parseRes.expr # Nil) =>
        /\ parseRes.expr[1].Second.Type = FieldSecond
        /\ parseRes.expr[1].Minute.Type = FieldMinute
        /\ parseRes.expr[1].Hour.Type = FieldHour
        /\ parseRes.expr[1].DayOfMonth.Type = FieldDayOfMonth
        /\ parseRes.expr[1].Month.Type = FieldMonth
        /\ parseRes.expr[1].DayOfWeek.Type = FieldDayOfWeek
        /\ \A f \in FieldsOf(parseRes.expr[1]) :
              f.Values # {} /\ f.Values \subseteq DocumentedValues(f.Type)

\* "0 0 1W,L-2 * 6L" parsed: the day sets hold the codes 101 and 34, and 16
C26_Witness ==
    /\ pc = "parsed"
    /\ raw = "0 0 1W,L-2 * 6L"
    /\ parseRes.expr # Nil
    /\ parseRes.expr[1].DayOfMonth.Values = {34, 101}
    /\ parseRes.expr[1].DayOfWeek.Values = {16}
    /\ parseRes.expr[1].Month.Values = 1..12

\* the OR policy of the two day fields over their natural values only
NaturalDayPolicy(e, c) ==
    LET policy(dom, dow) ==
            IF dom = 1..31 /\ dow = 0..6 THEN TRUE
            ELSE IF dom = 1..31 THEN c.weekday \in dow
            ELSE IF dow = 0..6 THEN c.day \in dom
            ELSE c.day \in dom \/ c.weekday \in dow
    IN  policy(e.DayOfMonth.Values \cap (1..31), e.DayOfWeek.Values \cap (0..6))

\* C27: when an expression mixes special tokens with ordinary day values, a day on
\* which no special predicate matches is decided by the OR policy over natural-domain
\* membership only: "15,L" with day-of-week * is accepted on exactly the 15th and the
\* last day of each month, "L" with day-of-week "1" on exactly the last day and every
\* Monday; an extension code never makes an ordinary day or weekday count as
\* contained.
C27_MixedDayPolicy ==
    /\ \A x \in MixedDayExprs :
          ProbedOn(x) =>
              (dayProbe.res <=> \/ Probed.day = DaysIn(Probed.year, Probed.month)
                                \/ NaturalDayPolicy(parseRes.expr[1], Probed))
    /\ ProbedOn(<<"0", "0", "15,L", "*", "*">>) =>
          (dayProbe.res <=> Probed.day \in {15, DaysIn(Probed.year, Probed.month)})
    /\ ProbedOn(<<"0", "0", "L", "*", "1">>) =>
          (dayProbe.res <=> (Probed.day = DaysIn(Probed.year, Probed.month) \/ Probed.weekday = 1))


C29_PreviousFromFraction ==
    (pc = "done" /\ call.op = "prev" /\ call.arg = 1 /\ location = UTC
        /\ call.from.nsec > 0) =>
        /\ failedCheck(parseRes.expr[1], Clock(UTC, call.from.sec)) = "none" =>
              /\ result.err = Nil
              /\ result.time = <<call.from.sec>>
        /\ result.err = Nil =>
              /\ failedCheck(parseRes.expr[1], Clock(UTC, result.time[1])) = "none"
              /\ ~MatchWithin(parseRes.expr[1], result.time[1] + 1, call.from.sec)


(***************************************************************************)
(* IsDue against the search: for an instant t the caller asks Next(t - 1s) *)
(* or Previous(t + 1s) and then IsDue(t).                                  *)
(***************************************************************************)
\* expressions whose tokens set no special-day flag, two of them with an
\* extension code in the day-of-month set, and one that sets a flag
DueExprs ==
    { <<"0", "9", "*", "*", "1-5">>, <<"0", "0", "1", "*", "*">>, <<"0", "0", "15", "*", "1">>,
      <<"*/15", "*", "*", "*", "*">>, <<"0", "0", "1,15", "JAN,jun", "1,3">>,
      <<"0", "0", "29", "2", "*">>, <<"0", "0", "30", "2", "*">>,
      <<"*", "*", "*", "*", "*", "*">>, <<"30", "0", "9", "*", "*", "1-5">>,
      <<"59", "59", "23", "*", "*", "*">>, <<"0", "0", "L-3", "*", "*">>,
      <<"0", "0", "1-30,L-3", "*", "1">>, <<"0", "0", "L", "*", "*">> }

DueAsts ==
    { [kind |-> "tokens", name |-> "", style |-> "", toks |-> x,
       lead |-> "", sep |-> " ", trail |-> ""] : x \in DueExprs }

\* the instants t asked about: 2024-01-01 and 2024-01-15 are Mondays, 2024-01-07 a
\* Sunday, 2024-01-28 three days before the end of its month
DueTimes ==
    { Instant(2024, 1, 1, 0, 0, 0), Instant(2024, 1, 1, 9, 0, 0), Instant(2024, 1, 1, 9, 0, 30),
      Instant(2024, 1, 7, 9, 0, 0), Instant(2024, 1, 15, 0, 0, 0), Instant(2024, 1, 28, 0, 0, 0),
      Instant(2024, 1, 31, 23, 59, 59), Instant(2024, 2, 29, 0, 0, 0),
      Instant(2024, 6, 3, 0, 0, 0), Instant(2024, 6, 15, 10, 15, 0) }

InitDue ==
    /\ pc = "start"
    /\ ast \in DueAsts
    /\ raw = RenderRaw(ast)
    /\ seconds = FALSE
    /\ parseRes = NoParse
    /\ fieldType = FieldSecond /\ token = "" /\ fieldRes = [field |-> Nil, err |-> Nil]
    /\ matchArgs = NoArgs /\ matchRes = FALSE
    /\ location = UTC /\ call = NoCall /\ result = NoResult
    /\ batch = NoBatch
    /\ threads = NoThreads
    /\ dayProbe = NoProbe

\* Next(t - 1s), which is NextN(t - 1s, 1), up to the loop of NextN
NextBefore ==
    /\ pc = "ready"
    /\ \E t \in DueTimes :
          \E maxTime \in AddDate(location, TruncateSecond([sec |-> t - 1 + 1, nsec |-> 0]),
                                 DefaultSearchYears, 0, 0) :
              call' = [op |-> "next", from |-> [sec |-> t - 1, nsec |-> 0], arg |-> 1, n |-> 1,
                       t |-> TruncateSecond([sec |-> t - 1 + 1, nsec |-> 0]),
                       limit |-> maxTime, iterations |-> 0]
    /\ pc' = "nextN"
    /\ UNCHANGED <<ast, threads, dayProbe, batch, fieldVars, parseVars, matchVars, location, result>>

\* Previous(t + 1s), which is PreviousN(t + 1s, 1), up to the loop of PreviousN
PreviousAfter ==
    /\ pc = "ready"
    /\ \E t \in DueTimes :
          \E minTime \in AddDate(location, TruncateSecond([sec |-> t + 1 - 1, nsec |-> 0]),
                                 0 - DefaultSearchYears, 0, 0) :
              call' = [op |-> "prev", from |-> [sec |-> t + 1, nsec |-> 0], arg |-> 1, n |-> 1,
                       t |-> TruncateSecond([sec |-> t + 1 - 1, nsec |-> 0]),
                       limit |-> minTime, iterations |-> 0]
    /\ pc' = "previousN"
    /\ UNCHANGED <<ast, threads, dayProbe, batch, fieldVars, parseVars, matchVars, location, result>>

\* the instant t of a finished call Next(t - 1s) or Previous(t + 1s)
AskedInstant == IF call.op = "next" THEN call.from.sec + 1 ELSE call.from.sec - 1

\* Scheduler.IsDue(t) once the search has returned, with or without an error
IsDueAt ==
    /\ pc = "done"
    /\ LET due(a) ==
               /\ matchArgs' = a
               /\ matchRes' = Matches(parseRes.expr[1], a.second, a.minute, a.hour,
                                      a.day, a.month, a.weekday)
       IN  due(IsDueArgs(location, AskedInstant))
    /\ pc' = "dueChecked"
    /\ UNCHANGED <<ast, threads, dayProbe, batch, fieldVars, parseVars, schedVars>>

NextDue ==
    \/ Parse
    \/ NewScheduler
    \/ NextBefore
    \/ NextNLoop
    \/ FindNextStep
    \/ PreviousAfter
    \/ PreviousNLoop
    \/ FindPrevStep
    \/ IsDueAt

SpecDue == InitDue /\ [][NextDue]_vars

\* the day decision of Expression.Matches on (day, weekday), the other four
\* arguments taken from the expression's own sets
MatchesDayPolicy(e, day, weekday) ==
    LET least(S) == CHOOSE v \in S : \A w \in S : v <= w
    IN  Matches(e, least(e.Second.Values), least(e.Minute.Values), least(e.Hour.Values),
                day, least(e.Month.Values), weekday)

\* C30: for an expression without special-day flags and a scheduler in UTC, IsDue(t)
\* is true exactly when Next(t - 1s) returns t, and exactly when Previous(t + 1s)
\* returns t; the day policy of Scheduler.matchesDay and that of Expression.Matches
\* give the same answer for every day 1..31 and weekday 0..6 (stated on the parsed
\* expression, which no later step changes).
C30_IsDueAgreesWithSearch ==
    (pc # "start" /\ parseRes.expr # Nil /\ ~HasSpecialDayHandling(parseRes.expr[1])) =>
        /\ (pc = "dueChecked" /\ location = UTC) =>
              (matchRes <=> (result.err = Nil /\ result.time = <<AskedInstant>>))
        /\ pc = "parsed" =>
              \A day \in 1..31, weekday \in 0..6 :
                  matchesDay(parseRes.expr[1],
                             [year |-> 2024, month |-> 1, day |-> day, weekday |-> weekday,
                              hour |-> 0, minute |-> 0, second |-> 0])
                      <=> MatchesDayPolicy(parseRes.expr[1], day, weekday)

\* "0 0 15 * 1" on Monday 2024-01-01: Next(2023-12-31T23:59:59Z) returned
\* 2024-01-01T00:00:00Z and IsDue of that instant is true
C30_Witness ==
    /\ pc = "dueChecked"
    /\ location = UTC
    /\ raw = "0 0 15 * 1"
    /\ call.op = "next"
    /\ AskedInstant = Instant(2024, 1, 1, 0, 0, 0)
    /\ result.time = <<Instant(2024, 1, 1, 0, 0, 0)>>
    /\ matchRes = TRUE

=============================================================================
